---- MODULE Spec2Model ----
(***************************************************************************)
(* Permissions syncing scheduler of repo-updater (PermsSyncer): the        *)
(* priority request queue, the sync executor (runSync/syncPerms), the      *)
(* public ScheduleUsers/ScheduleRepos entry points, the periodic scheduler *)
(* (runSchedule) and the user-centric fetch routine (syncUserPerms).       *)
(*                                                                         *)
(* The request queue itself (requestQueue: enqueue, acquireNext, release,  *)
(* remove and its heap order) is not part of the available sources; it is  *)
(* modelled from the written specification (sections 3 and 4.1).           *)
(***************************************************************************)
EXTENDS Integers, Sequences, FiniteSets, TLC

\* ------------------------------------------------------------------ bounds
\* Users are 1..MaxUserID, repositories are 1..MaxRepoID.
MaxUserID == 1
MaxRepoID == 1
\* The clock and every timestamp range over 1..MaxTime; 0 is time.Time{}.
MaxTime == 2
\* ScheduleUsers/ScheduleRepos are called with 1..MaxBatch ids.
MaxBatch == 2

UserIDs == 1..MaxUserID
RepoIDs == 1..MaxRepoID
Times == 1..MaxTime
\* The zero time.Time: "nextSyncAt not set".
ZeroTime == 0

\* --------------------------------------------------------------- constants
priorityLow == 0
priorityHigh == 1
requestTypeRepo == "repo"
requestTypeUser == "user"

IDsOf(typ) == IF typ = requestTypeUser THEN UserIDs ELSE RepoIDs
Keys == {<<requestTypeUser, id>> : id \in UserIDs} \cup {<<requestTypeRepo, id>> : id \in RepoIDs}

NoRequest == <<"none", 0>>

VARIABLES
    heap,            \* requestQueue.heap: the queued syncRequests, in enqueue order
    notifyEnqueue,   \* requestQueue.notifyEnqueue: channel of capacity 1 (TRUE = full)
    notifyDequeued,  \* runSync's notifyDequeued channel of capacity 1 (TRUE = full)
    timers,          \* deadlines of the armed time.AfterFunc timers
    now,             \* the reading of s.clock()
    disabled,        \* the value isDisabled() returns
    ctxDone,         \* Run's context is cancelled
    syncPC,          \* position of the runSync goroutine
    request,         \* runSync's local `request`: key of the acquired syncRequest
    err,             \* runSync's local `err` after syncPerms: "none" | "nil" | "err"
    schedPC,         \* position of the runSchedule goroutine
    want,            \* per key: what the enqueue calls on the queued, unacquired entry asked for
    usync,           \* the locals of the running syncUserPerms call
    expired,         \* external accounts marked expired (TouchExpired)
    lastValid,       \* external accounts marked last valid (TouchLastValid)
    userPerms,       \* the user's row in the permissions store
    tolerated,       \* repo specs that came with a fetch error syncUserPerms went on from
    fetchErrs,       \* per walked account or service: what its fetch returned
    rsync,           \* the locals of the running syncRepoPerms call
    repoPerms,       \* the repository's rows in the permissions store
    rcalls,          \* the calls the running syncRepoPerms has made, and the rows it started from
    plan,            \* a state of the permissions store and what schedule() returns for it
    runPC,           \* position of Run: "init" | "blocked" | "returned"
    metricsPC,       \* position of the collectMetrics goroutine
    dump,            \* the locals of a running DebugDump call and what it returned
    resetter,        \* a dbworker.Resetter: its context, its finished channel, Start and Stop
    mu,              \* s.queue.mu: the callers that hold its read lock
    p4,              \* a running Perforce Provider.FetchUserPerms: its locals and what it returned
    lookup,          \* a running listPrivateRepoNamesByExact: its locals and what it returned
    search           \* a running searcher.Search: its locals, the endpoints and what it returned

qvars == <<heap, notifyEnqueue, notifyDequeued, timers, now, disabled, ctxDone,
           syncPC, request, err, schedPC, want>>

uvars == <<usync, expired, lastValid, userPerms, tolerated, fetchErrs>>

rvars == <<rsync, repoPerms, rcalls>>

lvars == <<runPC, metricsPC>>

xvars == <<dump, resetter, mu>>

fvars == <<p4, lookup, search>>

vars == <<qvars, uvars, rvars, plan, lvars, xvars, fvars>>

\* ------------------------------------------------------- the request queue
\* requestMeta as built by scheduleUsers / scheduleRepos.
requestMeta(prio, typ, id, nextSyncAt, noPerms) ==
    [Priority |-> prio, Type |-> typ, ID |-> id, NextSyncAt |-> nextSyncAt, NoPerms |-> noPerms]

\* syncRequest: the meta plus the acquired flag; queueIndex is the position in heap.
syncRequest(meta) ==
    [Priority |-> meta.Priority, Type |-> meta.Type, ID |-> meta.ID,
     NextSyncAt |-> meta.NextSyncAt, NoPerms |-> meta.NoPerms, acquired |-> FALSE]

\* Positions of the entries for (typ, id).
Slots(h, typ, id) == {i \in 1..Len(h) : h[i].Type = typ /\ h[i].ID = id}

\* The lookup index from (type, id) to heap slot; 0 when the key is not queued.
index(h, typ, id) == IF Slots(h, typ, id) = {} THEN 0 ELSE CHOOSE i \in Slots(h, typ, id) : TRUE

\* "As soon as possible wins over wait until": the earlier of two times, unset first.
Earliest(a, b) == IF a <= b THEN a ELSE b

MaxPriority(a, b) == IF a >= b THEN a ELSE b

\* A heap order that forgets the priority.
LessByTimeOnly(h, i, j) ==
    IF h[i].NextSyncAt # h[j].NextSyncAt THEN h[i].NextSyncAt < h[j].NextSyncAt
    ELSE i < j

\* Heap order: priority descending, nextSyncAt ascending with unset first,
\* then enqueue sequence (the position in h).
Less(h, i, j) ==
    IF h[i].Priority # h[j].Priority THEN h[i].Priority > h[j].Priority
    ELSE IF h[i].NextSyncAt # h[j].NextSyncAt THEN h[i].NextSyncAt < h[j].NextSyncAt
    ELSE i < j

RemoveAt(h, i) == SubSeq(h, 1, i - 1) \o SubSeq(h, i + 1, Len(h))

\* enqueue without the lookup in the index: every call pushes a new entry.
enqueueAlwaysPush(h, meta) == Append(h, syncRequest(meta))

\* enqueue updating the entry of a key whether it is acquired or not.
enqueueAcquiredToo(h, meta) ==
    LET i == index(h, meta.Type, meta.ID) IN
    IF i = 0 THEN Append(h, syncRequest(meta))
    ELSE [h EXCEPT ![i].Priority = MaxPriority(h[i].Priority, meta.Priority),
                   ![i].NextSyncAt = Earliest(h[i].NextSyncAt, meta.NextSyncAt)]

\* enqueue: inserts a new entry, or updates an existing unacquired one in place
\* (raising the priority, moving nextSyncAt earlier); an acquired entry is left alone.
enqueue(h, meta) ==
    LET i == index(h, meta.Type, meta.ID) IN
    IF i = 0 THEN Append(h, syncRequest(meta))
    ELSE IF h[i].acquired THEN h
    ELSE [h EXCEPT ![i].Priority = MaxPriority(h[i].Priority, meta.Priority),
                   ![i].NextSyncAt = Earliest(h[i].NextSyncAt, meta.NextSyncAt)]

\* updated: whether enqueue modified an existing entry.
enqueueUpdated(h, meta) == index(h, meta.Type, meta.ID) # 0 /\ enqueue(h, meta) # h

\* The "enqueue happened" signal is sent when an entry was inserted or modified.
enqueueNotifies(h, meta) == enqueue(h, meta) # h

\* An acquireNext that serves the unacquired entries in enqueue order.
acquireNextOldest(h) ==
    LET free == {i \in 1..Len(h) : ~h[i].acquired} IN
    IF free = {} THEN 0
    ELSE CHOOSE i \in free : \A j \in free : i <= j

\* acquireNext: the slot of the first unacquired entry under the heap order, 0 if none.
acquireNext(h) ==
    LET free == {i \in 1..Len(h) : ~h[i].acquired} IN
    IF free = {} THEN 0
    ELSE CHOOSE i \in free : \A j \in free \ {i} : Less(h, i, j)

\* A release that takes the entry out of the queue.
releaseRemoves(h, typ, id) ==
    LET i == index(h, typ, id) IN
    IF i = 0 THEN h ELSE SubSeq(h, 1, i - 1) \o SubSeq(h, i + 1, Len(h))

\* release: un-acquires without removing.
release(h, typ, id) ==
    LET i == index(h, typ, id) IN
    IF i = 0 THEN h ELSE [h EXCEPT ![i].acquired = FALSE]

\* remove: fully removes the entry of (typ, id).
remove(h, typ, id, flag) ==
    LET i == index(h, typ, id) IN
    IF i = 0 THEN h ELSE RemoveAt(h, i)

\* notify: non-blocking send on a channel of capacity 1 (a full channel stays full).
notify(ch) == TRUE

\* q.mu.Lock(): the queue's own methods take the write lock for the length
\* of the call, which needs the read lock to be free.
Unlocked == mu = {}

\* ---------------------------------------------------- scheduling requests
scheduledUser(prio, id, nextSyncAt, noPerms) ==
    [priority |-> prio, userID |-> id, nextSyncAt |-> nextSyncAt, noPerms |-> noPerms]

scheduledRepo(prio, id, nextSyncAt, noPerms) ==
    [priority |-> prio, repoID |-> id, nextSyncAt |-> nextSyncAt, noPerms |-> noPerms]

\* scheduleUsers dropping the requested NextSyncAt.
scheduleUsersMetaNoTime(u) == requestMeta(u.priority, requestTypeUser, u.userID, ZeroTime, u.noPerms)

\* The requestMeta scheduleUsers passes to queue.enqueue for one scheduledUser.
scheduleUsersMeta(u) == requestMeta(u.priority, requestTypeUser, u.userID, u.nextSyncAt, u.noPerms)

\* The requestMeta scheduleRepos passes to queue.enqueue for one scheduledRepo.
scheduleReposMeta(r) == requestMeta(r.priority, requestTypeRepo, r.repoID, r.nextSyncAt, r.noPerms)

\* ScheduleUsers leaving the priority at its zero value.
ScheduleUsersListLow(ids) == [i \in 1..Len(ids) |-> scheduledUser(priorityLow, ids[i], ZeroTime, FALSE)]

\* ScheduleUsers: every given id at high priority, nextSyncAt and noPerms left zero.
ScheduleUsersList(ids) == [i \in 1..Len(ids) |-> scheduledUser(priorityHigh, ids[i], ZeroTime, FALSE)]

\* ScheduleRepos asking for a sync at the latest time.
ScheduleReposListTimed(ids) == [i \in 1..Len(ids) |-> scheduledRepo(priorityHigh, ids[i], MaxTime, FALSE)]

\* ScheduleRepos: every given id at high priority, nextSyncAt and noPerms left zero.
ScheduleReposList(ids) == [i \in 1..Len(ids) |-> scheduledRepo(priorityHigh, ids[i], ZeroTime, FALSE)]

\* What the enqueue calls made on a key's entry while it is queued and not
\* acquired have asked for: the highest priority and the earliest time.
NoWant == [Priority |-> -1, NextSyncAt |-> -1]

WantAfter(h, w, typ, id, prio, nextSyncAt) ==
    LET k == <<typ, id>>
        i == index(h, typ, id) IN
    IF i = 0 THEN [w EXCEPT ![k] = [Priority |-> prio, NextSyncAt |-> nextSyncAt]]
    ELSE IF h[i].acquired THEN w
    ELSE [w EXCEPT ![k] = [Priority |-> IF prio > w[k].Priority THEN prio ELSE w[k].Priority,
                           NextSyncAt |-> IF nextSyncAt < w[k].NextSyncAt THEN nextSyncAt
                                          ELSE w[k].NextSyncAt]]

\* The queue as the enqueuing code sees it, with the record of what was asked.
Queue == [heap |-> heap, notifyEnqueue |-> notifyEnqueue, want |-> want]

\* One s.queue.enqueue(meta) call: the queue update and the wake-up signal.
Enqueue(q, meta) ==
    [heap |-> enqueue(q.heap, meta),
     notifyEnqueue |-> IF enqueueNotifies(q.heap, meta) THEN notify(q.notifyEnqueue) ELSE q.notifyEnqueue,
     want |-> q.want]

\* Records that a request for user or repository id was handed to the queue.
Asked(q, typ, id, prio, nextSyncAt) ==
    [q EXCEPT !.want = WantAfter(q.heap, q.want, typ, id, prio, nextSyncAt)]

\* scheduleUsers: enqueues the users in order; n is the number of iterations
\* that start before ctx.Done() is observed.
RECURSIVE scheduleUsers(_, _, _)
scheduleUsers(q, users, n) ==
    IF users = <<>> \/ n = 0 THEN q
    ELSE LET u == Head(users) IN
         scheduleUsers(Enqueue(Asked(q, requestTypeUser, u.userID, u.priority, u.nextSyncAt),
                               scheduleUsersMeta(u)),
                       Tail(users), n - 1)

\* scheduleRepos: enqueues the repos in order; n as for scheduleUsers.
RECURSIVE scheduleRepos(_, _, _)
scheduleRepos(q, repos, n) ==
    IF repos = <<>> \/ n = 0 THEN q
    ELSE LET r == Head(repos) IN
         scheduleRepos(Enqueue(Asked(q, requestTypeRepo, r.repoID, r.priority, r.nextSyncAt),
                               scheduleReposMeta(r)),
                       Tail(repos), n - 1)

\* ScheduleUsers without the isDisabled() test.
ScheduleUsersQueueAlways(q, ids, dis, n) ==
    IF Len(ids) = 0 THEN q ELSE scheduleUsers(q, ScheduleUsersList(ids), n)

\* ScheduleUsers(ctx, userIDs...): nothing on an empty list or when disabled.
ScheduleUsersQueue(q, ids, dis, n) ==
    IF Len(ids) = 0 \/ dis THEN q ELSE scheduleUsers(q, ScheduleUsersList(ids), n)

\* ScheduleRepos(ctx, repoIDs...): nothing on an empty list or when disabled.
ScheduleReposQueue(q, ids, dis, n) ==
    IF Len(ids) = 0 \/ dis THEN q ELSE scheduleRepos(q, ScheduleReposList(ids), n)

IDSeqs(typ) == UNION {[1..k -> IDsOf(typ)] : k \in 0..MaxBatch}

SetQueue(q) ==
    /\ heap' = q.heap
    /\ notifyEnqueue' = q.notifyEnqueue
    /\ want' = q.want

\* A caller runs ScheduleUsers(ctx, ids...); its context is done after n iterations.
ScheduleUsers(ids, n) ==
    /\ Unlocked
    /\ SetQueue(ScheduleUsersQueue(Queue, ids, disabled, n))
    /\ UNCHANGED <<notifyDequeued, timers, now, disabled, ctxDone, syncPC, request, err, schedPC>>
    /\ UNCHANGED <<uvars, rvars, plan, lvars, xvars, fvars>>

\* A caller runs ScheduleRepos(ctx, ids...); its context is done after n iterations.
ScheduleRepos(ids, n) ==
    /\ Unlocked
    /\ SetQueue(ScheduleReposQueue(Queue, ids, disabled, n))
    /\ UNCHANGED <<notifyDequeued, timers, now, disabled, ctxDone, syncPC, request, err, schedPC>>
    /\ UNCHANGED <<uvars, rvars, plan, lvars, xvars, fvars>>

\* ------------------------------------------------------ the sync executor
\* The syncRequest that runSync's `request` points to.
Req == heap[index(heap, request[1], request[2])]

\* The due check with the operands of Sub exchanged.
waitForSwapped(nextSyncAt, clock) == IF nextSyncAt = ZeroTime THEN -1 ELSE clock - nextSyncAt

\* wait := request.NextSyncAt.Sub(s.clock()); the zero time lies far in the past.
waitFor(nextSyncAt, clock) == IF nextSyncAt = ZeroTime THEN -1 ELSE nextSyncAt - clock

\* The deferral without the wake-up timer.
armNoTimer(ts, clock, wait) == ts

\* time.AfterFunc(wait, func() { notify(s.queue.notifyEnqueue) }): a one-shot
\* timer with deadline clock + wait.  Timers that share a deadline are kept as one.
armTimer(ts, clock, wait) == ts \cup {clock + wait}

\* A select whose return does not wait for ctx.Done().
RunSyncSelectUncancelled ==
    /\ syncPC = "select"
    /\ \/ /\ notifyDequeued
          /\ notifyDequeued' = FALSE
          /\ syncPC' = "acquire"
          /\ UNCHANGED notifyEnqueue
       \/ /\ notifyEnqueue
          /\ notifyEnqueue' = FALSE
          /\ syncPC' = "acquire"
          /\ UNCHANGED notifyDequeued
       \/ /\ syncPC' = "stopped"
          /\ UNCHANGED <<notifyEnqueue, notifyDequeued>>
    /\ UNCHANGED <<heap, timers, now, disabled, ctxDone, request, err, schedPC, want>>
    /\ UNCHANGED <<uvars, rvars, plan, lvars, xvars, fvars>>

\* runSync's select: takes one of the ready channels, or returns on ctx.Done().
RunSyncSelect ==
    /\ syncPC = "select"
    /\ \/ /\ notifyDequeued
          /\ notifyDequeued' = FALSE
          /\ syncPC' = "acquire"
          /\ UNCHANGED notifyEnqueue
       \/ /\ notifyEnqueue
          /\ notifyEnqueue' = FALSE
          /\ syncPC' = "acquire"
          /\ UNCHANGED notifyDequeued
       \/ /\ ctxDone
          /\ syncPC' = "stopped"
          /\ UNCHANGED <<notifyEnqueue, notifyDequeued>>
    /\ UNCHANGED <<heap, timers, now, disabled, ctxDone, request, err, schedPC, want>>
    /\ UNCHANGED <<uvars, rvars, plan, lvars, xvars, fvars>>

\* request := s.queue.acquireNext(); nil sends the loop back to the select.
RunSyncAcquire ==
    /\ syncPC = "acquire"
    /\ Unlocked
    /\ LET i == acquireNext(heap) IN
       IF i = 0
       THEN /\ syncPC' = "select"
            /\ UNCHANGED <<heap, request>>
       ELSE /\ heap' = [heap EXCEPT ![i].acquired = TRUE]
            /\ request' = <<heap[i].Type, heap[i].ID>>
            /\ syncPC' = "check"
    /\ UNCHANGED <<notifyEnqueue, notifyDequeued, timers, now, disabled, ctxDone, err, schedPC, want>>
    /\ UNCHANGED <<uvars, rvars, plan, lvars, xvars, fvars>>

\* The due check: a request that is not due yet is released and a one-shot
\* timer is armed for the remaining wait; a due one goes on to syncPerms.
RunSyncCheck ==
    /\ syncPC = "check"
    /\ LET wait == waitFor(Req.NextSyncAt, now) IN
       IF wait > 0
       THEN /\ Unlocked
            /\ heap' = release(heap, request[1], request[2])
            /\ timers' = armTimer(timers, now, wait)
            /\ request' = NoRequest
            /\ syncPC' = "select"
            /\ UNCHANGED notifyDequeued
       ELSE /\ notifyDequeued' = notify(notifyDequeued)
            /\ syncPC' = "sync"
            /\ UNCHANGED <<heap, timers, request>>
    /\ UNCHANGED <<notifyEnqueue, now, disabled, ctxDone, err, schedPC, want>>
    /\ UNCHANGED <<uvars, rvars, plan, lvars, xvars, fvars>>

\* A time.AfterFunc timer fires once its deadline is reached: notify(notifyEnqueue).
TimerFire(t) ==
    /\ t \in timers
    /\ now >= t
    /\ timers' = timers \ {t}
    /\ notifyEnqueue' = notify(notifyEnqueue)
    /\ UNCHANGED <<heap, notifyDequeued, now, disabled, ctxDone, syncPC, request, err, schedPC, want>>
    /\ UNCHANGED <<uvars, rvars, plan, lvars, xvars, fvars>>

\* The error syncPerms returns: that of the fetch routine of the request's
\* type, or "unexpected request type".
syncPermsErr(typ, userErr, repoErr) ==
    IF typ = requestTypeUser THEN userErr
    ELSE IF typ = requestTypeRepo THEN repoErr
    ELSE TRUE

\* syncPerms removing the request only after a successful sync.
syncPermsQueueOnSuccess(h, typ, id, e) == IF e THEN h ELSE remove(h, typ, id, TRUE)

\* The queue after syncPerms: the deferred s.queue.remove(request.Type, request.ID, true).
syncPermsQueue(h, typ, id, e) == remove(h, typ, id, TRUE)

\* err := s.syncPerms(ctx, request): the fetch routine runs (its outcome is an
\* input here) and the request is removed from the queue.
RunSyncPerms(userErr, repoErr) ==
    /\ syncPC = "sync"
    /\ Unlocked
    /\ LET e == syncPermsErr(request[1], userErr, repoErr) IN
       /\ heap' = syncPermsQueue(heap, request[1], request[2], e)
       /\ err' = IF e THEN "err" ELSE "nil"
    /\ want' = [want EXCEPT ![request] = NoWant]
    /\ syncPC' = "returned"
    /\ UNCHANGED <<notifyEnqueue, notifyDequeued, timers, now, disabled, ctxDone, request, schedPC>>
    /\ UNCHANGED <<uvars, rvars, plan, lvars, xvars, fvars>>

\* if err != nil { log; continue }: either way on to the next iteration.
RunSyncLoop ==
    /\ syncPC = "returned"
    /\ syncPC' = "select"
    /\ request' = NoRequest
    /\ err' = "none"
    /\ UNCHANGED <<heap, notifyEnqueue, notifyDequeued, timers, now, disabled, ctxDone, schedPC, want>>
    /\ UNCHANGED <<uvars, rvars, plan, lvars, xvars, fvars>>

\* -------------------------------------------------- the periodic scheduler
\* const limit = 10 in schedule().
limit == 10

\* The elements of a set of ids in ascending order.
RECURSIVE Ascending(_)
Ascending(S) ==
    IF S = {} THEN <<>>
    ELSE LET m == CHOOSE x \in S : \A y \in S : x <= y IN <<m>> \o Ascending(S \ {m})

\* The orders in which a Go map with key set S can be iterated.
Orders(S) == {o \in [1..Cardinality(S) -> S] : \A i, j \in 1..Cardinality(S) : o[i] = o[j] => i = j}

\* What the permissions store holds when a tick queries it: st maps each
\* existing user and (private) repository to the time its permissions were
\* last updated, 0 when it has no permissions row.
StoreStates == UNION {[S -> 0..MaxTime] : S \in SUBSET Keys}

Stored(typ, st) == {k[2] : k \in {x \in DOMAIN st : x[1] = typ}}

\* The store's answer to "entities with no permissions".
NoPermsIDs(typ, st) == {id \in Stored(typ, st) : st[<<typ, id>>] = 0}

\* The store's answer to "at most n entities with the oldest permissions".
OldestPerms(typ, st, n) ==
    LET have == {id \in Stored(typ, st) : st[<<typ, id>>] # 0}
        size == IF Cardinality(have) < n THEN Cardinality(have) ELSE n IN
    CHOOSE T \in SUBSET have :
        /\ Cardinality(T) = size
        /\ \A a \in T, b \in have \ T : st[<<typ, a>>] <= st[<<typ, b>>]

scheduleUsersWithNoPerms(st) ==
    LET ids == Ascending(NoPermsIDs(requestTypeUser, st)) IN
    [i \in 1..Len(ids) |-> scheduledUser(priorityLow, ids[i], ZeroTime, TRUE)]

scheduleReposWithNoPerms(st) ==
    LET ids == Ascending(NoPermsIDs(requestTypeRepo, st)) IN
    [i \in 1..Len(ids) |-> scheduledRepo(priorityLow, ids[i], ZeroTime, TRUE)]

\* order: the iteration order of the map the store returned.
scheduleUsersWithOldestPerms(st, order) ==
    [i \in 1..Len(order) |-> scheduledUser(priorityLow, order[i], st[<<requestTypeUser, order[i]>>], FALSE)]

\* scheduleReposWithOldestPerms dropping the stored timestamp.
scheduleReposWithOldestPermsNoTime(st, order) ==
    [i \in 1..Len(order) |-> scheduledRepo(priorityLow, order[i], ZeroTime, FALSE)]

scheduleReposWithOldestPerms(st, order) ==
    [i \in 1..Len(order) |-> scheduledRepo(priorityLow, order[i], st[<<requestTypeRepo, order[i]>>], FALSE)]

\* schedule() that loads the entities with no permissions twice.
scheduleNoPermsTwice(st, uorder, rorder) ==
    [Users |-> scheduleUsersWithNoPerms(st) \o scheduleUsersWithNoPerms(st)
               \o scheduleUsersWithOldestPerms(st, uorder),
     Repos |-> scheduleReposWithNoPerms(st) \o scheduleReposWithOldestPerms(st, rorder)]

\* schedule(): users and repos with no permissions first, then the oldest ones.
schedule(st, uorder, rorder) ==
    [Users |-> scheduleUsersWithNoPerms(st) \o scheduleUsersWithOldestPerms(st, uorder),
     Repos |-> scheduleReposWithNoPerms(st) \o scheduleReposWithOldestPerms(st, rorder)]

\* The four store queries of schedule(), by the error each one is wrapped in.
scheduleErrors ==
    <<"schedule users with no permissions", "schedule repositories with no permissions",
      "load users with oldest permissions", "scan repositories with oldest permissions">>

\* What schedule() has appended to schedule.Users and schedule.Repos when its
\* k-th query fails.
scheduleUpTo(st, uorder, rorder, k) ==
    [Users |-> (IF k > 1 THEN scheduleUsersWithNoPerms(st) ELSE <<>>)
               \o (IF k > 3 THEN scheduleUsersWithOldestPerms(st, uorder) ELSE <<>>),
     Repos |-> IF k > 2 THEN scheduleReposWithNoPerms(st) ELSE <<>>]

\* A tick that enqueues what schedule() had computed when it failed.
runScheduleQueueDespiteError(q, dis, failed, sc, done) ==
    IF dis THEN q
    ELSE scheduleRepos(scheduleUsers(q, sc.Users, IF done THEN 0 ELSE Len(sc.Users)),
                       sc.Repos, IF done THEN 0 ELSE Len(sc.Repos))

\* A tick that does not ask isDisabled().
runScheduleQueueAlways(q, dis, failed, sc, done) ==
    IF failed THEN q
    ELSE scheduleRepos(scheduleUsers(q, sc.Users, IF done THEN 0 ELSE Len(sc.Users)),
                       sc.Repos, IF done THEN 0 ELSE Len(sc.Repos))

\* The queue after one tick of runSchedule: nothing when the feature is
\* disabled or schedule() failed, else every user, then every repo.  A
\* cancelled context stops scheduleUsers and scheduleRepos at once; a tick cut
\* short by a cancellation is the tick of a smaller store followed by CancelRun.
runScheduleQueue(q, dis, failed, sc, done) ==
    IF dis \/ failed THEN q
    ELSE scheduleRepos(scheduleUsers(q, sc.Users, IF done THEN 0 ELSE Len(sc.Users)),
                       sc.Repos, IF done THEN 0 ELSE Len(sc.Repos))

\* runSchedule's select takes the ticker.
RunScheduleTick(st, uorder, rorder, failed) ==
    /\ schedPC = "tick"
    /\ Unlocked
    /\ SetQueue(runScheduleQueue(Queue, disabled, failed, schedule(st, uorder, rorder), ctxDone))
    /\ UNCHANGED <<notifyDequeued, timers, now, disabled, ctxDone, syncPC, request, err, schedPC>>
    /\ UNCHANGED <<uvars, rvars, plan, lvars, xvars, fvars>>

\* runSchedule's select takes ctx.Done().
RunScheduleStop ==
    /\ schedPC = "tick"
    /\ ctxDone
    /\ schedPC' = "stopped"
    /\ UNCHANGED <<heap, notifyEnqueue, notifyDequeued, timers, now, disabled, ctxDone,
                   syncPC, request, err, want>>
    /\ UNCHANGED <<uvars, rvars, plan, lvars, xvars, fvars>>

\* -------------------------------------------- schedule() on larger stores
\* The store holds at most MaxStoreIDs users and MaxStoreIDs repositories ...
MaxStoreIDs == 11
\* ... and at most MaxStoreRows rows of both kinds together.
MaxStoreRows == 13

EmptyPlan == [st |-> <<>>, computed |-> FALSE, Users |-> <<>>, Repos |-> <<>>]

\* The store with one more row: the next id of the kind, last updated at t
\* (0: no permissions row).
storeWith(st, typ, t) ==
    LET k == <<typ, Cardinality(Stored(typ, st)) + 1>> IN
    [x \in (DOMAIN st) \cup {k} |-> IF x = k THEN t ELSE st[x]]

\* A user or private repository is added to the store.  Rows are added in the
\* order of their timestamps, which leaves every multiset of timestamps reachable.
PlanStoreAdd(typ, t) ==
    /\ Cardinality(Stored(typ, plan.st)) < MaxStoreIDs
    /\ Cardinality(DOMAIN plan.st) < MaxStoreRows
    /\ \A id \in Stored(typ, plan.st) : plan.st[<<typ, id>>] <= t
    /\ plan' = [EmptyPlan EXCEPT !.st = storeWith(plan.st, typ, t)]
    /\ UNCHANGED <<qvars, uvars, rvars, lvars, xvars, fvars>>

\* schedule(ctx) on the store, every store call succeeding.
PlanSchedule ==
    /\ ~plan.computed
    /\ LET sc == schedule(plan.st,
                          Ascending(OldestPerms(requestTypeUser, plan.st, limit)),
                          Ascending(OldestPerms(requestTypeRepo, plan.st, limit))) IN
       plan' = [plan EXCEPT !.computed = TRUE, !.Users = sc.Users, !.Repos = sc.Repos]
    /\ UNCHANGED <<qvars, uvars, rvars, lvars, xvars, fvars>>

PlanNext ==
    \/ \E typ \in {requestTypeUser, requestTypeRepo}, t \in 0..MaxTime : PlanStoreAdd(typ, t)
    \/ PlanSchedule

\* ------------------------------------------------------------ environment
\* The clock advances.
Tick ==
    /\ now < MaxTime
    /\ now' = now + 1
    /\ UNCHANGED <<heap, notifyEnqueue, notifyDequeued, timers, disabled, ctxDone,
                   syncPC, request, err, schedPC, want>>
    /\ UNCHANGED <<uvars, rvars, plan, lvars, xvars, fvars>>

\* The configuration changes what isDisabled() returns.
SetDisabled(b) ==
    /\ disabled # b
    /\ disabled' = b
    /\ UNCHANGED <<heap, notifyEnqueue, notifyDequeued, timers, now, ctxDone,
                   syncPC, request, err, schedPC, want>>
    /\ UNCHANGED <<uvars, rvars, plan, lvars, xvars, fvars>>

\* Run's context is cancelled.
CancelRun ==
    /\ ~ctxDone
    /\ ctxDone' = TRUE
    /\ UNCHANGED <<heap, notifyEnqueue, notifyDequeued, timers, now, disabled,
                   syncPC, request, err, schedPC, want>>
    /\ UNCHANGED <<uvars, rvars, plan, lvars, xvars, fvars>>

\* ------------------------------------------------------------- DebugDump
\* requestInfo{Meta: &requestMeta{Priority, Type, ID, NextSyncAt}, Acquired}
requestInfo(r) ==
    [Meta |-> [Priority |-> r.Priority, Type |-> r.Type, ID |-> r.ID, NextSyncAt |-> r.NextSyncAt],
     Acquired |-> r.acquired]

\* for len(queue.heap) > 0 { heap.Pop(&queue) ... }: the entries of the slots
\* S of h in heap order.
RECURSIVE popAll(_, _)
popAll(h, S) ==
    IF S = {} THEN <<>>
    ELSE LET i == CHOOSE i \in S : \A j \in S \ {i} : Less(h, i, j) IN
         <<requestInfo(h[i])>> \o popAll(h, S \ {i})

IdleDump == [pc |-> "idle", n |-> 0, Size |-> 0, Queue |-> <<>>, of |-> <<>>]
\* (n: the length the copy was made with; of: the queue the copy was taken from.)

\* queue := requestQueue{heap: make([]*syncRequest, len(s.queue.heap))}: the
\* length is read before s.queue.mu.RLock().
DebugDumpMake ==
    /\ dump.pc = "idle"
    /\ dump' = [IdleDump EXCEPT !.pc = "made", !.n = Len(heap)]
    /\ UNCHANGED <<qvars, uvars, rvars, plan, lvars, resetter, mu, fvars>>

\* Under the read lock: the entries are copied into the slice made earlier
\* and popped in heap order. A queue that grew since runs past the end of the
\* slice (index out of range); one that shrank leaves nil slots that heap.Pop
\* dereferences: the call panics either way.
DebugDumpCopy ==
    /\ dump.pc = "made"
    /\ dump' = IF dump.n # Len(heap)
               THEN [dump EXCEPT !.pc = "panic"]
               ELSE [dump EXCEPT !.pc = "done",
                                 !.Queue = popAll(heap, 1..Len(heap)),
                                 !.Size = Len(heap),
                                 !.of = heap]
    /\ mu' = IF dump.n # Len(heap) THEN mu ELSE mu \cup {"DebugDump"}
    /\ UNCHANGED <<qvars, uvars, rvars, plan, lvars, resetter, fvars>>

\* return &data, with the deferred s.queue.mu.RUnlock(); a later call starts afresh.
DebugDumpReturn ==
    /\ dump.pc = "done"
    /\ dump' = IdleDump
    /\ mu' = mu \ {"DebugDump"}
    /\ UNCHANGED <<qvars, uvars, rvars, plan, lvars, resetter, fvars>>

\* ------------------------------------------------------ dbworker.Resetter
\* ResetStalled is called at most MaxResetCalls times ...
MaxResetCalls == 6
\* ... and Metrics.Errors counts up to MaxResetErrors.
MaxResetErrors == 4

\* What Start tells apart in the error of ResetStalled: nil, an error that is
\* a context cancellation ("canceled"), any other error.
ResetStalledErrors == {"nil", "canceled", "other"}

\* newResetter: a fresh context, an open finished channel; Start is not running.
NewResetter ==
    [startPC |-> "notStarted", stopPC |-> "idle", cancelled |-> FALSE, finished |-> FALSE,
     calls |-> 0, errors |-> 0, callsAfterStop |-> 0]
\* (calls: ResetStalled calls begun; errors: Metrics.Errors; callsAfterStop:
\* ResetStalled calls begun after Stop returned.)

\* r.store.ResetStalled(r.ctx) begins.
resetStalledBegins(r) ==
    [r EXCEPT !.startPC = "call", !.calls = @ + 1,
              !.callsAfterStop = IF r.stopPC = "returned" THEN @ + 1 ELSE @]

\* defer close(r.finished): Start returns.
startReturns(r) == [r EXCEPT !.startPC = "returned", !.finished = TRUE]

\* A shutdown test that does not ask whether r.ctx is done.
shutdownErrorAnyContext(cancelled, e) == e = "canceled"

\* r.ctx.Err() != nil && errors.Is(err, r.ctx.Err())
shutdownError(cancelled, e) == cancelled /\ e = "canceled"

\* A caller runs Start: the loop begins with a ResetStalled call.
ResetterStart ==
    /\ resetter.startPC = "notStarted"
    /\ resetter' = resetStalledBegins(resetter)
    /\ UNCHANGED <<qvars, uvars, rvars, plan, lvars, dump, mu, fvars>>

\* ResetStalled returns with e: a shutdown error breaks the loop, any other
\* error is counted and logged, and the iteration goes on to the select.
ResetStalledReturns(e) ==
    /\ resetter.startPC = "call"
    /\ e # "nil" /\ ~shutdownError(resetter.cancelled, e) => resetter.errors < MaxResetErrors
    /\ resetter' =
          IF e # "nil" /\ shutdownError(resetter.cancelled, e) THEN startReturns(resetter)
          ELSE IF e # "nil" THEN [resetter EXCEPT !.startPC = "select", !.errors = @ + 1]
          ELSE [resetter EXCEPT !.startPC = "select"]
    /\ UNCHANGED <<qvars, uvars, rvars, plan, lvars, dump, mu, fvars>>

\* case <-r.clock.After(r.options.Interval): the next iteration.
ResetterInterval ==
    /\ resetter.startPC = "select"
    /\ resetter.calls < MaxResetCalls
    /\ resetter' = resetStalledBegins(resetter)
    /\ UNCHANGED <<qvars, uvars, rvars, plan, lvars, dump, mu, fvars>>

\* case <-r.ctx.Done(): return
ResetterDone ==
    /\ resetter.startPC = "select"
    /\ resetter.cancelled
    /\ resetter' = startReturns(resetter)
    /\ UNCHANGED <<qvars, uvars, rvars, plan, lvars, dump, mu, fvars>>

\* Stop: r.cancel(), then the wait on r.finished.
ResetterStop ==
    /\ resetter.stopPC = "idle"
    /\ resetter' = [resetter EXCEPT !.stopPC = "waiting", !.cancelled = TRUE]
    /\ UNCHANGED <<qvars, uvars, rvars, plan, lvars, dump, mu, fvars>>

\* <-r.finished: Stop returns once the channel is closed.
ResetterStopReturns ==
    /\ resetter.stopPC = "waiting"
    /\ resetter.finished
    /\ resetter' = [resetter EXCEPT !.stopPC = "returned"]
    /\ UNCHANGED <<qvars, uvars, rvars, plan, lvars, dump, mu, fvars>>

ResetterNext ==
    \/ ResetterStart
    \/ \E e \in ResetStalledErrors : ResetStalledReturns(e)
    \/ ResetterInterval
    \/ ResetterDone
    \/ ResetterStop
    \/ ResetterStopReturns

\* Start and Stop run whenever they can, ResetStalled returns, and a select
\* that is ready on r.ctx.Done() again and again takes it.
ResetterFairness ==
    /\ WF_vars(\E e \in ResetStalledErrors : ResetStalledReturns(e))
    /\ SF_vars(ResetterDone)
    /\ WF_vars(ResetterStopReturns)

\* -------------------------------------- Perforce Provider.FetchUserPerms
\* `p4 protects -u user` prints at most MaxLines ACL lines.
MaxLines == 3

\* Strings are sequences of characters; "%" and "[^/]+" stand for the two
\* wildcard patterns the conversion writes.
wildcardMatchAll == "%"
wildcardMatchDirectory == "[^/]+"

\* The depot paths (fields[4]) of the ACL lines, a leading "-" included.
DepotPaths ==
    {<<"a">>, <<"a", "b">>, <<"a", ".", ".", ".">>, <<"a", ".", ".", ".", "b">>,
     <<"a", "*">>, <<"a", "b", ".", ".", ".">>}

DepotMatches == DepotPaths \cup {<<"-">> \o m : m \in DepotPaths}

\* The access levels (fields[0]) of the ACL lines.
Levels == {"read", "list", "=write"}

canRevokeReadAccess(level) ==
    level \in {"list", "read", "=read", "open", "write", "review", "owner", "admin", "super"}

canGrantReadAccess(level) ==
    level \in {"read", "=read", "open", "=open", "write", "=write", "review", "owner",
               "admin", "super"}

\* strings.HasPrefix(s, prefix).
HasPrefix(s, prefix) == Len(prefix) <= Len(s) /\ SubSeq(s, 1, Len(prefix)) = prefix

\* strings.TrimRight(s, "."): s without its trailing dots.
RECURSIVE TrimRight(_)
TrimRight(s) ==
    IF s # <<>> /\ s[Len(s)] = "." THEN TrimRight(SubSeq(s, 1, Len(s) - 1)) ELSE s

\* strings.ReplaceAll(s, "...", wildcardMatchAll), from left to right.
RECURSIVE ReplaceAllDots(_)
ReplaceAllDots(s) ==
    IF s = <<>> THEN <<>>
    ELSE IF HasPrefix(s, <<".", ".", ".">>)
         THEN <<wildcardMatchAll>> \o ReplaceAllDots(SubSeq(s, 4, Len(s)))
         ELSE <<s[1]>> \o ReplaceAllDots(Tail(s))

\* strings.ReplaceAll(s, "*", wildcardMatchDirectory).
ReplaceAllStars(s) == [k \in 1..Len(s) |-> IF s[k] = "*" THEN wildcardMatchDirectory ELSE s[k]]

\* depotContains as computed from depotMatch, before the "-" is looked at.
depotContainsOf(depotMatch) == ReplaceAllStars(ReplaceAllDots(TrimRight(depotMatch)))

\* strings.Contains(depotContains, wildcardMatchAll) || strings.Contains(depotContains, wildcardMatchDirectory).
containsWildcard(depotContains) ==
    \E k \in 1..Len(depotContains) :
       depotContains[k] \in {wildcardMatchAll, wildcardMatchDirectory}

\* The inclusions that are a prefix of depotContains, by index.
prefixesOf(includeContains, depotContains) ==
    {k \in 1..Len(includeContains) : HasPrefix(depotContains, includeContains[k])}

\* The last inclusion that is a prefix of depotContains (0: none).
lastPrefix(includeContains, depotContains) ==
    IF prefixesOf(includeContains, depotContains) = {} THEN 0
    ELSE CHOOSE k \in prefixesOf(includeContains, depotContains) :
            \A j \in prefixesOf(includeContains, depotContains) : j <= k

\* The inclusion the loop `for i, prefix := range includeContains` stops at:
\* the first one that is a prefix of depotContains (0: none).
firstPrefix(includeContains, depotContains) ==
    IF prefixesOf(includeContains, depotContains) = {} THEN 0
    ELSE CHOOSE k \in prefixesOf(includeContains, depotContains) :
            \A j \in prefixesOf(includeContains, depotContains) : k <= j

\* append(includeContains[:i], includeContains[i+1:]...).
removeInclude(includeContains, i) ==
    SubSeq(includeContains, 1, i - 1) \o SubSeq(includeContains, i + 1, Len(includeContains))

\* A rule whose depot prefix starts with "-", at a level that can revoke.
revoke(scan, depotContains) ==
    IF containsWildcard(depotContains)
    THEN [scan EXCEPT !.excludeContains = Append(@, depotContains)]
    ELSE IF firstPrefix(scan.includeContains, depotContains) = 0 THEN scan
    ELSE IF scan.includeContains[firstPrefix(scan.includeContains, depotContains)] = depotContains
    THEN [scan EXCEPT !.includeContains =
              removeInclude(@, firstPrefix(scan.includeContains, depotContains))]
    ELSE [scan EXCEPT !.excludeContains = Append(@, depotContains)]

\* One iteration of the scanner loop on the line `level user name host depotMatch`.
scanLine(scan, level, depotMatch) ==
    IF HasPrefix(depotContainsOf(depotMatch), <<"-">>)
    THEN IF canRevokeReadAccess(level)
         THEN revoke(scan, Tail(depotContainsOf(depotMatch)))
         ELSE scan
    ELSE IF canGrantReadAccess(level)
         THEN [scan EXCEPT !.includeContains = Append(@, depotContainsOf(depotMatch))]
         ELSE scan

\* "Treat all paths as prefixes": every path gets wildcardMatchAll appended.
asPrefixes(paths) == [k \in 1..Len(paths) |-> Append(paths[k], wildcardMatchAll)]

\* FetchUserPerms before P4Exec: no line read, nothing collected.
NewScan ==
    [pc |-> "idle", n |-> 0, level |-> "", depotMatch |-> <<>>,
     includeContains |-> <<>>, excludeContains |-> <<>>,
     IncludeContains |-> <<>>, ExcludeContains |-> <<>>, ret |-> "running"]

\* The account checks and P4Exec "protects -u": an error returns at once.
P4Exec(ok) ==
    /\ p4.pc = "idle"
    /\ p4' = IF ok THEN [p4 EXCEPT !.pc = "scan"]
              ELSE [p4 EXCEPT !.pc = "done", !.ret = "list ACLs by user"]
    /\ UNCHANGED <<qvars, uvars, rvars, plan, lvars, xvars, lookup, search>>

\* scanner.Scan() yields a line with at least five fields.
P4ScanLine(level, depotMatch) ==
    /\ p4.pc = "scan"
    /\ p4.n < MaxLines
    /\ p4' = [scanLine(p4, level, depotMatch)
              EXCEPT !.n = @ + 1, !.level = level, !.depotMatch = depotMatch]
    /\ UNCHANGED <<qvars, uvars, rvars, plan, lvars, xvars, lookup, search>>

\* scanner.Scan() returns false: the paths are made prefixes and returned.
P4Return ==
    /\ p4.pc = "scan"
    /\ p4' = [p4 EXCEPT !.pc = "done", !.ret = "nil",
                        !.IncludeContains = asPrefixes(p4.includeContains),
                        !.ExcludeContains = asPrefixes(p4.excludeContains)]
    /\ UNCHANGED <<qvars, uvars, rvars, plan, lvars, xvars, lookup, search>>

P4Next ==
    \/ \E ok \in BOOLEAN : P4Exec(ok)
    \/ /\ p4.pc = "scan"
       /\ \E level \in Levels, depotMatch \in DepotMatches : P4ScanLine(level, depotMatch)
    \/ P4Return

\* ------------------------------------------- listPrivateRepoNamesByExact
\* The repo specs are looked up `pace` at a time.
pace == 10000

\* The lengths of repoSpecs tried: around no, one and two full batches.
SpecCounts == {0, 1, 2, pace - 1, pace, pace + 1, 2 * pace - 1, 2 * pace, 2 * pace + 1}

\* The k-th spec of the input is the external repo k.
repoSpecsOf(n) == [k \in 1..n |-> k]

\* Which external repos the store holds as private repositories.
PrivateRepos == {"all", "none", "even"}

\* RepoStore.ListRepoNames with ExternalRepos and OnlyPrivate: the private
\* repositories among the given specs, in the order given.
ListRepoNames(externalRepos, private) ==
    LET onlyPrivate(x) == private = "all" \/ (private = "even" /\ x % 2 = 0)
    IN  SelectSeq(externalRepos, onlyPrivate)

\* A first batch that holds all the specs.
firstCutAll(n) == n

\* nextCut := 10000, cut down to len(remaining).
firstCut(n) == IF n < pace THEN n ELSE pace

\* nextCut after a batch: cut down to len(remaining).
cutAgain(remaining, nextCut) == IF Len(remaining) < nextCut THEN Len(remaining) ELSE nextCut

\* listPrivateRepoNamesByExact is not running.
IdleLookup ==
    [pc |-> "idle", repoSpecs |-> <<>>, private |-> "none", remaining |-> <<>>, nextCut |-> 0,
     repoNames |-> <<>>, batches |-> <<>>, nil |-> FALSE, result |-> <<>>, ret |-> "running"]
\* (batches: the ExternalRepos of the ListRepoNames calls made, in order;
\* nil, result, ret: the slice and the error returned.)

\* listPrivateRepoNamesByExact(ctx, repoSpecs) up to the loop.
ListStart(n, private) ==
    /\ lookup.pc = "idle"
    /\ lookup' = IF n = 0
                  THEN [lookup EXCEPT !.pc = "done", !.private = private, !.ret = "nil"]
                  ELSE [lookup EXCEPT !.pc = "loop", !.private = private,
                                      !.repoSpecs = repoSpecsOf(n),
                                      !.remaining = repoSpecsOf(n),
                                      !.nextCut = firstCut(n)]
    /\ UNCHANGED <<qvars, uvars, rvars, plan, lvars, xvars, p4, search>>

\* One iteration of `for nextCut > 0`: ListRepoNames on remaining[:nextCut].
ListBatch(ok) ==
    /\ lookup.pc = "loop"
    /\ lookup.nextCut > 0
    /\ lookup' =
         IF ~ok
         THEN [lookup EXCEPT !.pc = "done", !.nil = TRUE, !.ret = "err",
                             !.batches = Append(@, SubSeq(lookup.remaining, 1, lookup.nextCut))]
         ELSE [lookup EXCEPT
                 !.batches = Append(@, SubSeq(lookup.remaining, 1, lookup.nextCut)),
                 !.repoNames = @ \o ListRepoNames(SubSeq(lookup.remaining, 1, lookup.nextCut),
                                                  lookup.private),
                 !.remaining = SubSeq(@, lookup.nextCut + 1, Len(@)),
                 !.nextCut = cutAgain(SubSeq(lookup.remaining, lookup.nextCut + 1,
                                             Len(lookup.remaining)), @)]
    /\ UNCHANGED <<qvars, uvars, rvars, plan, lvars, xvars, p4, search>>

\* nextCut is 0: return repoNames, nil.
ListReturn ==
    /\ lookup.pc = "loop"
    /\ lookup.nextCut <= 0
    /\ lookup' = [lookup EXCEPT !.pc = "done", !.ret = "nil", !.result = lookup.repoNames]
    /\ UNCHANGED <<qvars, uvars, rvars, plan, lvars, xvars, p4, search>>

ListNext ==
    \/ \E n \in SpecCounts, private \in PrivateRepos : ListStart(n, private)
    \/ \E ok \in BOOLEAN : ListBatch(ok)
    \/ ListReturn

\* A call that has started goes on until it returns.
ListFairness == WF_vars(\E ok \in BOOLEAN : ListBatch(ok)) /\ WF_vars(ListReturn)

\* --------------------------------------------------------- searcher.Search
\* maxAttempts = 2.
maxAttempts == 2

\* The searcher endpoints there can be.
Endpoints == {"A", "B"}

\* What textSearchURL or textSearchURLStream returns as error: nil, or an
\* error that errcode.IsTemporary and errcode.IsTimeout tell apart.
NilError == [nil |-> TRUE, temporary |-> FALSE, timeout |-> FALSE]

SearchErrors == {NilError} \cup [nil : {FALSE}, temporary : BOOLEAN, timeout : BOOLEAN]

\* endpoint.Map.Get(key, exclude): the endpoints it can return.
Get(endpoints, exclude) == endpoints \ exclude

\* The endpoints an attempt can go to: one that is not excluded, and with
\* nothing left ("Fallback to a bad host") any endpoint.
searcherURLsOf(endpoints, excluded) ==
    IF Get(endpoints, excluded) # {} THEN Get(endpoints, excluded) ELSE Get(endpoints, {})

\* A retry that excludes nothing.
excludeNone(excluded, searcherURL) == excluded

\* excludedSearchURLs[searcherURL] = true.
exclude(excluded, searcherURL) == excluded \cup {searcherURL}

\* What an iteration does after its attempt returned e: "return" or "retry".
afterAttempt(e, cancelled, attempt) ==
    IF e.nil \/ e.timeout THEN "return"
    ELSE IF cancelled THEN "return"
    ELSE IF ~e.temporary \/ attempt = maxAttempts THEN "return"
    ELSE "retry"

\* The error Search returns after an attempt that returned e.
searchErr(e, cancelled) ==
    IF e.nil THEN "nil"
    ELSE IF e.timeout THEN "err"
    ELSE IF cancelled THEN "ctx.Err()" ELSE "err"

\* Search is not running.
IdleSearch ==
    [pc |-> "idle", endpoints |-> {}, stream |-> FALSE, attempt |-> 0,
     excludedSearchURLs |-> {}, urls |-> <<>>, errs |-> <<>>, cancelled |-> <<>>,
     available |-> <<>>, ret |-> "running"]
\* (urls, errs, cancelled, available: per attempt made, the endpoint it went
\* to, the error it returned, what ctx.Err() said after it and the endpoints
\* there were when it was picked.)

\* Search is called, with or without onMatches.
SearchStart(endpoints, stream) ==
    /\ search.pc = "idle"
    /\ search' = [search EXCEPT !.pc = "loop", !.endpoints = endpoints, !.stream = stream]
    /\ UNCHANGED <<qvars, uvars, rvars, plan, lvars, xvars, p4, lookup>>

\* The endpoints change while Search is between two attempts.
EndpointsChange(endpoints) ==
    /\ search.pc = "loop"
    /\ search.attempt > 0
    /\ endpoints # search.endpoints
    /\ search' = [search EXCEPT !.endpoints = endpoints]
    /\ UNCHANGED <<qvars, uvars, rvars, plan, lvars, xvars, p4, lookup>>

\* searcherURLs.Get returns an error: Search returns it.
SearchGetFails ==
    /\ search.pc = "loop"
    /\ search' = [search EXCEPT !.pc = "done", !.attempt = @ + 1, !.ret = "err"]
    /\ UNCHANGED <<qvars, uvars, rvars, plan, lvars, xvars, p4, lookup>>

\* One iteration of the loop: pick an endpoint, search on it, and return or
\* exclude it and go round again.
SearchAttempt(searcherURL, e, cancelled) ==
    /\ search.pc = "loop"
    /\ searcherURL \in searcherURLsOf(search.endpoints, search.excludedSearchURLs)
    /\ search' =
         [search EXCEPT
            !.attempt = @ + 1,
            !.urls = Append(@, searcherURL),
            !.errs = Append(@, e),
            !.cancelled = Append(@, cancelled),
            !.available = Append(@, search.endpoints),
            !.pc = IF afterAttempt(e, cancelled, search.attempt + 1) = "return"
                   THEN "done" ELSE "loop",
            !.ret = IF afterAttempt(e, cancelled, search.attempt + 1) = "return"
                    THEN searchErr(e, cancelled) ELSE "running",
            !.excludedSearchURLs =
                   IF afterAttempt(e, cancelled, search.attempt + 1) = "return"
                   THEN @ ELSE exclude(@, searcherURL)]
    /\ UNCHANGED <<qvars, uvars, rvars, plan, lvars, xvars, p4, lookup>>

SearchNext ==
    \/ \E endpoints \in SUBSET Endpoints, stream \in BOOLEAN : SearchStart(endpoints, stream)
    \/ \E endpoints \in SUBSET Endpoints : EndpointsChange(endpoints)
    \/ SearchGetFails
    \/ /\ search.pc = "loop"
       /\ \E searcherURL \in Endpoints, e \in SearchErrors, cancelled \in BOOLEAN :
             SearchAttempt(searcherURL, e, cancelled)

\* ------------------------------------------------------------------- Run
\* Run(ctx): go s.runSync(ctx); go s.runSchedule(ctx); go s.collectMetrics(ctx).
RunStart ==
    /\ runPC = "init"
    /\ runPC' = "blocked"
    /\ syncPC' = "select"
    /\ schedPC' = "tick"
    /\ metricsPC' = "select"
    /\ UNCHANGED <<heap, notifyEnqueue, notifyDequeued, timers, now, disabled, ctxDone,
                   request, err, want>>
    /\ UNCHANGED <<uvars, rvars, plan, xvars, fvars>>

\* A Run that does not wait for its context.
RunReturnAtOnce ==
    /\ runPC = "blocked"
    /\ runPC' = "returned"
    /\ UNCHANGED <<qvars, uvars, rvars, plan, metricsPC, xvars, fvars>>

\* <-ctx.Done(): Run returns once its context is cancelled.
RunReturn ==
    /\ runPC = "blocked"
    /\ ctxDone
    /\ runPC' = "returned"
    /\ UNCHANGED <<qvars, uvars, rvars, plan, metricsPC, xvars, fvars>>

\* A metrics loop that takes the read lock before its query.
MetricsTickLocked ==
    /\ metricsPC = "select"
    /\ metricsPC' = "collect"
    /\ mu' = mu \cup {"collectMetrics"}
    /\ UNCHANGED <<qvars, uvars, rvars, plan, runPC, dump, resetter, fvars>>

\* collectMetrics' select takes the ticker: s.permsStore.Metrics is called.
MetricsTick ==
    /\ metricsPC = "select"
    /\ metricsPC' = "collect"
    /\ UNCHANGED <<qvars, uvars, rvars, plan, runPC, xvars, fvars>>

\* s.permsStore.Metrics returns: on an error the loop continues; otherwise
\* the gauges are set and s.queue.mu.RLock() is taken for the queue size.
MetricsCollect(ok) ==
    /\ metricsPC = "collect"
    /\ metricsPC' = IF ok THEN "locked" ELSE "select"
    /\ mu' = IF ok THEN mu \cup {"collectMetrics"} ELSE mu
    /\ UNCHANGED <<qvars, uvars, rvars, plan, runPC, dump, resetter, fvars>>

\* metricsQueueSize.Set(float64(s.queue.Len())); s.queue.mu.RUnlock()
MetricsUnlock ==
    /\ metricsPC = "locked"
    /\ metricsPC' = "select"
    /\ mu' = mu \ {"collectMetrics"}
    /\ UNCHANGED <<qvars, uvars, rvars, plan, runPC, dump, resetter, fvars>>

\* collectMetrics' select takes ctx.Done().
MetricsStop ==
    /\ metricsPC = "select"
    /\ ctxDone
    /\ metricsPC' = "stopped"
    /\ UNCHANGED <<qvars, uvars, rvars, plan, runPC, xvars, fvars>>

\* ----------------------------------------------------------- syncUserPerms
\* Code hosts (authz provider service ids) are 1..MaxService.
MaxService == 2
\* A user has at most MaxAccounts external accounts before the sync ...
MaxAccounts == 2
\* ... and at most MaxExternalServices external services of their own.
MaxExternalServices == 1
\* ... and the sync walks over at most MaxItems accounts and services in all.
MaxItems == 2
\* Repositories are 1..MaxExtID; a repository's external id is its own number.
MaxExtID == 2

Services == 1..MaxService
Repos == 1..MaxExtID

\* The code host a repository lives on.
ServiceOf(r) == ((r - 1) % MaxService) + 1

\* What a provider hands back: authz.ExternalUserPermissions, or nil.
NilPerms == [present |-> FALSE, Exacts |-> {}, IncludeContains |-> {}, ExcludeContains |-> {}]

ExternalUserPermissions ==
    [present : {TRUE}, Exacts : SUBSET Repos, IncludeContains : SUBSET {1}, ExcludeContains : SUBSET {MaxExtID}]

\* The errors of a provider fetch as syncUserPerms tells them apart.
FetchErrors == {"nil", "unauthorized", "forbidden", "accountSuspended", "other"}

\* api.ExternalRepoSpec{ID, ServiceType, ServiceID} for the ids a provider returned.
externalRepoSpecs(ids, serviceID) == {[ID |-> x, ServiceID |-> serviceID] : x \in ids}

\* An include or exclude prefix p covers the external ids under it.
Covers(p, x) == x >= p

\* ListRepoNames by exact external repo specs, private repositories only.
listPrivateRepoNamesByExact(repoSpecs, private) ==
    {r \in private : [ID |-> r, ServiceID |-> ServiceOf(r)] \in repoSpecs}

\* ListRepoNames by include/exclude prefixes, private repositories only.
listRepoNamesByContains(includeContainsSpecs, excludeContainsSpecs, private) ==
    {r \in private :
        /\ \E sp \in includeContainsSpecs : sp.ServiceID = ServiceOf(r) /\ Covers(sp.ID, r)
        /\ ~\E sp \in excludeContainsSpecs : sp.ServiceID = ServiceOf(r) /\ Covers(sp.ID, r)}

\* A prefix lookup made as soon as any prefix, include or exclude, was collected.
prefixLookupAnyPrefix(u) == u.includeContainsSpecs # {} \/ u.excludeContainsSpecs # {}

\* len(includeContainsSpecs) > 0: the prefix lookup is made.
prefixLookup(u) == u.includeContainsSpecs # {}

\* The bitmap without the directly granted repositories.
userPermissionIDsNoDirect(u, private) ==
    listPrivateRepoNamesByExact(u.repoSpecs, private)
    \cup (IF prefixLookup(u)
          THEN listRepoNamesByContains(u.includeContainsSpecs, u.excludeContainsSpecs, private)
          ELSE {})

\* The bitmap syncUserPerms saves: exact matches, prefix matches when there is
\* an inclusion, and the directly granted repositories.
userPermissionIDs(u, private) ==
    listPrivateRepoNamesByExact(u.repoSpecs, private)
    \cup (IF prefixLookup(u)
          THEN listRepoNamesByContains(u.includeContainsSpecs, u.excludeContainsSpecs, private)
          ELSE {})
    \cup u.repoIDs

IdleUserSync ==
    [pc |-> "idle", noPerms |-> FALSE, providers |-> {}, items |-> <<>>, i |-> 0,
     repoIDs |-> {},
     repoSpecs |-> {}, includeContainsSpecs |-> {}, excludeContainsSpecs |-> {}, ret |-> "running",
     storeErrs |-> {}, log |-> <<>>, lookups |-> {}]
\* (storeErrs: the store calls of this sync that returned an error; log: the
\* waitForRateLimit calls and provider permission fetches made, in order;
\* lookups: the store calls the tail of the sync has made.)

account(id, serviceID) == [kind |-> "account", ID |-> id, ServiceID |-> serviceID, token |-> "ok"]

externalService(id, serviceID, token) == [kind |-> "service", ID |-> id, ServiceID |-> serviceID, token |-> token]

AccountLists == UNION {[1..k -> Services] : k \in 0..MaxAccounts}

\* An external service of the user: its code host and whether its token can be
\* read ("err": extsvc.ExtractToken fails; "empty": no token).
ExternalServiceLists ==
    UNION {[1..k -> [ServiceID : Services, token : {"ok", "err", "empty"}]] : k \in 0..MaxExternalServices}

\* The store reads at the head of syncUserPerms, in order.
LoadFailures ==
    {"list external service repo IDs by user ID", "get user", "list external accounts",
     "list user verified emails", "fetching external services"}

\* The providers without an external account of the user.
Lacking(provs, accts) == {sv \in provs : ~\E k \in 1..Len(accts) : accts[k] = sv}

\* The accounts and external services syncUserPerms walks over: the stored
\* accounts, the accounts FetchAccount found and saved (in the iteration order
\* of the provider map), then the user's external services.
accountsOrServices(accts, fetched, svcs) ==
    [k \in 1..Len(accts) |-> account(k, accts[k])]
    \o [k \in 1..Len(fetched) |-> account(Len(accts) + k, fetched[k])]
    \o [k \in 1..Len(svcs) |-> externalService(k, svcs[k].ServiceID, svcs[k].token)]

\* The store reads made before the loop over the providers that lack an account.
BeforeFetchAccount ==
    {"list external service repo IDs by user ID", "get user", "list external accounts",
     "list user verified emails"}

\* The store calls that failed up to the loop over accountsOrServices: the
\* failed read, and AssociateUserAndSave when it failed for some provider.
loadStoreErrs(unsaved, fail) ==
    (IF fail # "none" THEN {fail} ELSE {})
    \cup (IF unsaved # {} THEN {"associate external account"} ELSE {})

\* syncUserPerms(ctx, userID, noPerms) up to the loop over accountsOrServices.
\* unsaved: the providers whose fetched account AssociateUserAndSave failed to
\* save (logged, the provider is passed over).
UserSyncStart(noPerms, provs, accts, fetched, unsaved, svcs, direct, fail) ==
    /\ usync.pc = "idle"
    /\ fail \in BeforeFetchAccount => unsaved = {}
    /\ usync' = IF fail # "none"
                THEN [IdleUserSync EXCEPT !.pc = "done", !.noPerms = noPerms, !.ret = fail,
                                          !.storeErrs = loadStoreErrs(unsaved, fail)]
                ELSE [IdleUserSync EXCEPT !.pc = "loop", !.noPerms = noPerms, !.providers = provs,
                                          !.items = accountsOrServices(accts, fetched, svcs),
                                          !.i = 1, !.repoIDs = direct,
                                          !.storeErrs = loadStoreErrs(unsaved, fail)]
    /\ fetchErrs' = IF fail # "none" THEN <<>>
                    ELSE [k \in 1..(Len(accts) + Len(fetched) + Len(svcs)) |-> "unfetched"]
    /\ UNCHANGED <<expired, lastValid, userPerms, tolerated>>
    /\ UNCHANGED <<qvars, rvars, plan, lvars, xvars, fvars>>

Item == usync.items[usync.i]

\* The head of one loop iteration: the provider of the account (byServiceID)
\* or of the external service (byURN) and, for a service, its token.
hasProvider(item, provs) == item.ServiceID \in provs

skipsItem(item, provs) ==
    \/ ~hasProvider(item, provs)
    \/ item.kind = "service" /\ item.token # "ok"

\* A variant that does not look for errcode.IsForbidden.
credentialErrorNoForbidden(e) == e \in {"unauthorized", "accountSuspended"}

\* unauthorized || accountSuspended || forbidden
credentialError(e) == e \in {"unauthorized", "forbidden", "accountSuspended"}

\* A variant that returns every other fetch error, first sync or not.
accountOutcomeAlwaysAbort(e, noPerms) ==
    IF e # "nil"
    THEN IF credentialError(e) THEN "expire" ELSE "abort"
    ELSE "valid"

\* What an iteration does with the fetch result of an external account:
\* "expire", "abort", "partial" (go on with what came back) or "valid".
accountOutcome(e, noPerms) ==
    IF e # "nil"
    THEN IF credentialError(e) THEN "expire"
         ELSE IF ~noPerms THEN "abort"
         ELSE "partial"
    ELSE "valid"

\* What an iteration does with the fetch result of an external service:
\* any error is logged and the loop continues.
serviceOutcome(e, noPerms) == IF e # "nil" THEN "continue" ELSE "valid"

\* The specs collected at the end of an iteration.
collect(u, ext, serviceID) ==
    IF ~ext.present THEN u
    ELSE [u EXCEPT !.repoSpecs = @ \cup externalRepoSpecs(ext.Exacts, serviceID),
                   !.includeContainsSpecs = @ \cup externalRepoSpecs(ext.IncludeContains, serviceID),
                   !.excludeContainsSpecs = @ \cup externalRepoSpecs(ext.ExcludeContains, serviceID)]

\* A loop that stays on the entry it has just handled.
NextItemAgain(u) == u

\* The loop over accountsOrServices moves on to the next entry.
NextItem(u) == [u EXCEPT !.i = @ + 1]

\* A limiter shared by all code hosts.
rateLimitKeyGlobal(serviceID) == 0

\* The limiter waitForRateLimit waits on: that of provider.ServiceID().
rateLimitKey(serviceID) == serviceID

\* s.waitForRateLimit(ctx, provider.ServiceID(), 1) returning nil (ok) or an error.
waitEvent(serviceID, ok) == [op |-> "wait", serviceID |-> rateLimitKey(serviceID), n |-> 1, ok |-> ok]

\* provider.FetchUserPerms, FetchUserPermsByToken or FetchRepoPerms.
fetchEvent(serviceID) == [op |-> "fetch", serviceID |-> serviceID, n |-> 0, ok |-> TRUE]

\* The calls one fetch attempt makes: the wait, and the fetch after a wait that succeeded.
fetchAttempt(serviceID, waitOk) ==
    IF waitOk THEN <<waitEvent(serviceID, TRUE), fetchEvent(serviceID)>>
    ELSE <<waitEvent(serviceID, FALSE)>>

logged(u, events) == [u EXCEPT !.log = @ \o events]

Abort(u, msg) == [u EXCEPT !.pc = "done", !.ret = msg]

\* A failed wait that a first sync tolerates: the loop goes on.
waitFailedTolerated(u) ==
    IF u.noPerms THEN [u EXCEPT !.i = @ + 1] ELSE Abort(u, "wait for rate limiter")

\* waitForRateLimit returned an error: return errors.Wrap(err, "wait for rate limiter").
waitFailed(u) == Abort(u, "wait for rate limiter")

\* A failed store call that is only logged: the loop goes on.
StoreErrorLogged(u, msg) == [u EXCEPT !.i = @ + 1, !.storeErrs = @ \cup {msg}]

\* return errors.Wrap(err, msg) after a failed store call.
StoreAbort(u, msg) == [u EXCEPT !.pc = "done", !.ret = msg, !.storeErrs = @ \cup {msg}]

\* One iteration of the loop over accountsOrServices. waitOk is the outcome of
\* waitForRateLimit, e and ext what the provider's fetch returns, touchOk the
\* outcome of TouchExpired or TouchLastValid.
UserSyncIterate(waitOk, e, ext, touchOk) ==
    /\ usync.pc = "loop"
    /\ usync.i <= Len(usync.items)
    /\ LET out == IF Item.kind = "account" THEN accountOutcome(e, usync.noPerms)
                  ELSE serviceOutcome(e, usync.noPerms)
           collected == NextItem(collect(usync, ext, Item.ServiceID))
           attempt == fetchAttempt(Item.ServiceID, waitOk) IN
       CASE skipsItem(Item, usync.providers) ->
              /\ usync' = NextItem(usync)
              /\ fetchErrs' = [fetchErrs EXCEPT ![usync.i] = "skipped"]
              /\ UNCHANGED <<expired, lastValid, tolerated>>
         [] ~skipsItem(Item, usync.providers) /\ ~waitOk ->
              /\ usync' = logged(waitFailed(usync), attempt)
              /\ UNCHANGED <<fetchErrs, expired, lastValid, tolerated>>
         [] OTHER ->
              /\ fetchErrs' = [fetchErrs EXCEPT ![usync.i] = e]
              /\ CASE out = "expire" ->
                        /\ usync' = logged(IF touchOk THEN NextItem(usync)
                                           ELSE StoreAbort(usync, "set expired for external account"),
                                           attempt)
                        /\ expired' = IF touchOk THEN expired \cup {Item.ID} ELSE expired
                        /\ UNCHANGED <<lastValid, tolerated>>
                   [] out = "abort" ->
                        /\ usync' = logged(Abort(usync, "fetch user permissions"), attempt)
                        /\ UNCHANGED <<expired, lastValid, tolerated>>
                   [] out = "partial" ->
                        /\ usync' = logged(collected, attempt)
                        /\ tolerated' = tolerated \cup externalRepoSpecs(ext.Exacts, Item.ServiceID)
                        /\ UNCHANGED <<expired, lastValid>>
                   [] out = "continue" ->
                        /\ usync' = logged(NextItem(usync), attempt)
                        /\ UNCHANGED <<expired, lastValid, tolerated>>
                   [] out = "valid" /\ Item.kind = "account" ->
                        /\ usync' = logged(IF touchOk THEN collected
                                           ELSE StoreAbort(usync, "set last valid for external account"),
                                           attempt)
                        /\ lastValid' = IF touchOk THEN lastValid \cup {Item.ID} ELSE lastValid
                        /\ UNCHANGED <<expired, tolerated>>
                   [] out = "valid" /\ Item.kind = "service" ->
                        /\ usync' = logged(collected, attempt)
                        /\ UNCHANGED <<expired, lastValid, tolerated>>
    /\ UNCHANGED userPerms
    /\ UNCHANGED <<qvars, rvars, plan, lvars, xvars, fvars>>

\* What the calls of one iteration can return, each combination the iteration
\* tells apart taken once: nothing is fetched after a failed wait, the result
\* that comes with a credential error is dropped, and no account is touched
\* after any other error.
IterateInputs ==
    {<<FALSE, "nil", NilPerms, TRUE>>}
    \cup {<<TRUE, e, NilPerms, touchOk>> :
             e \in {"unauthorized", "forbidden", "accountSuspended"}, touchOk \in BOOLEAN}
    \cup {<<TRUE, "other", ext, TRUE>> : ext \in ExternalUserPermissions \cup {NilPerms}}
    \cup {<<TRUE, "nil", ext, touchOk>> :
             ext \in ExternalUserPermissions \cup {NilPerms}, touchOk \in BOOLEAN}

\* The store calls after the loop, in order.
ResolveFailures ==
    {"list external repositories by exact matching",
     "list external repositories by contains matching", "set user permissions"}

\* The error the tail of syncUserPerms returns when the store call `fail`
\* fails: the prefix lookup is only made when an inclusion was collected.
resolveErr(u, fail) ==
    IF fail = "list external repositories by contains matching" /\ ~prefixLookup(u)
    THEN "nil"
    ELSE IF fail = "none" THEN "nil" ELSE fail

\* The store calls the tail of syncUserPerms makes when the call `fail` fails:
\* the exact lookup, the prefix lookup and SetUserPermissions, up to the
\* first one that returns an error.
resolveLookups(u, fail) ==
    {"exact"}
    \cup (IF fail # "list external repositories by exact matching" /\ prefixLookup(u)
          THEN {"contains"} ELSE {})
    \cup (IF resolveErr(u, fail) = "nil" THEN {"set"} ELSE {})

\* PermsStore.SetUserPermissions(p): the user's row becomes p.IDs; `before`
\* and `private` keep what the row held and what the lookups ran against.
SetUserPermissions(row, ids, private) ==
    [written |-> TRUE, IDs |-> ids, private |-> private, before |-> row.IDs]

\* The row an earlier sync of the user left in the store.
EarlierUserPermissions(ids) == [written |-> FALSE, IDs |-> ids, private |-> {}, before |-> {}]

\* An earlier sync saved permissions for the user.
UserStoreHas(ids) ==
    /\ usync.pc = "idle"
    /\ userPerms = EarlierUserPermissions({})
    /\ ids # {}
    /\ userPerms' = EarlierUserPermissions(ids)
    /\ UNCHANGED <<usync, expired, lastValid, tolerated, fetchErrs>>
    /\ UNCHANGED <<qvars, rvars, plan, lvars, xvars, fvars>>

\* The tail of syncUserPerms: resolve the specs against the repositories the
\* store holds as private, and SetUserPermissions.
UserSyncResolve(private, fail) ==
    /\ usync.pc = "loop"
    /\ usync.i > Len(usync.items)
    /\ usync' = [(IF resolveErr(usync, fail) = "nil"
                  THEN [usync EXCEPT !.pc = "done", !.ret = "nil"]
                  ELSE StoreAbort(usync, resolveErr(usync, fail)))
                 EXCEPT !.lookups = resolveLookups(usync, fail)]
    /\ userPerms' = IF resolveErr(usync, fail) = "nil"
                    THEN SetUserPermissions(userPerms, userPermissionIDs(usync, private), private)
                    ELSE userPerms
    /\ UNCHANGED <<fetchErrs, expired, lastValid, tolerated>>
    /\ UNCHANGED <<qvars, rvars, plan, lvars, xvars, fvars>>

UserNext ==
    \/ \E ids \in SUBSET {1} : UserStoreHas(ids)
    \/ /\ usync.pc = "idle"
       /\ \E noPerms \in BOOLEAN, provs \in SUBSET Services, accts \in AccountLists,
             svcs \in ExternalServiceLists, direct \in SUBSET {MaxExtID},
             fail \in LoadFailures \cup {"none"} :
             \E found \in SUBSET Lacking(provs, accts) : \E fetched \in Orders(found) :
                \E unsaved \in SUBSET (Lacking(provs, accts) \ found) :
                   /\ Len(accts) + Len(fetched) + Len(svcs) <= MaxItems
                   /\ UserSyncStart(noPerms, provs, accts, fetched, unsaved, svcs, direct, fail)
    \/ /\ usync.pc = "loop"
       /\ \E in \in IterateInputs : UserSyncIterate(in[1], in[2], in[3], in[4])
    \/ /\ usync.pc = "loop"
       /\ \E private \in SUBSET Repos, fail \in ResolveFailures \cup {"none"} :
             UserSyncResolve(private, fail)

\* ----------------------------------------------------------- syncRepoPerms
\* The users a repository's permissions can name are 1..MaxRepoUser.
MaxRepoUser == 2
\* The external account ids a provider can return are 1..MaxAccountID.
MaxAccountID == 2

RepoUsers == 1..MaxRepoUser
AccountIDs == 1..MaxAccountID

\* The errors of provider.FetchRepoPerms as syncRepoPerms tells them apart:
\* "notFound" is a *github.APIError with Code == http.StatusNotFound.
RepoFetchErrors == {"nil", "notFound", "other"}

\* The external accounts table: which account id belongs to which user.
AccountTables == UNION {[S -> RepoUsers] : S \in SUBSET AccountIDs}

\* PermsStore.GetUserIDsByExternalAccounts: the users of those of the given
\* account ids that the table knows.
GetUserIDsByExternalAccounts(table, accountIDs) ==
    [a \in (DOMAIN table) \cap accountIDs |-> table[a]]

\* The rows of a repository: its user bitmap, its pending account ids and
\* whether its sync timestamp was set by this sync.
RepoRows(userIDs, pending) == [UserIDs |-> userIDs, Pending |-> pending, touched |-> FALSE]

NoCalls ==
    [touch |-> 0, wait |-> 0, fetch |-> 0, setPerms |-> 0, setPending |-> 0,
     before |-> RepoRows({}, {}), table |-> <<>>]
\* (before: the rows the sync started from; table: the external accounts
\* table at the time of the lookup.)

IdleRepoSync ==
    [pc |-> "idle", noPerms |-> FALSE, exists |-> FALSE, private |-> FALSE,
     matches |-> FALSE, provider |-> FALSE,
     userIDs |-> {}, ferr |-> "nil", extAccountIDs |-> {},
     UserIDs |-> {}, pendingAccountIDs |-> {},
     tx |-> RepoRows({}, {}), ret |-> "running", storeErrs |-> {}, serviceID |-> 0, log |-> <<>>]
\* (serviceID: provider.ServiceID() of the provider found, 0 without one.)

\* An earlier sync of the repository left rows in the store.
RepoStoreHas(userIDs, pending) ==
    /\ rsync.pc = "idle"
    /\ repoPerms = RepoRows({}, {})
    /\ userIDs # {} \/ pending # {}
    /\ repoPerms' = RepoRows(userIDs, pending)
    /\ UNCHANGED <<rsync, rcalls>>
    /\ UNCHANGED <<qvars, uvars, plan, lvars, xvars, fvars>>

\* PermsStore.TouchRepoPermissions: sets the sync timestamp, keeps the content.
TouchRepoPermissions(rows) == [rows EXCEPT !.touched = TRUE]

RepoAbort(r, msg) == [r EXCEPT !.pc = "done", !.ret = msg]

\* return errors.Wrap(err, msg) after a failed store call.
RepoStoreAbort(r, msg) == [r EXCEPT !.pc = "done", !.ret = msg, !.storeErrs = @ \cup {msg}]

\* A provider lookup that does not ask whether the repository is private.
repoProviderAnyRepo(private, matches) == matches

\* The provider of the repository: only private repositories are looked up,
\* `matches` says whether one of repo.Sources is the URN of an authz provider.
repoProvider(private, matches) == private /\ matches

\* syncRepoPerms(ctx, repoID, noPerms) up to the choice of the provider:
\* listFail and found are the outcome of RepoStore.List, directFail and direct
\* that of ListExternalServiceUserIDsByRepoID.
RepoSyncStart(noPerms, listFail, found, private, matches, serviceID, directFail, direct) ==
    /\ rsync.pc = "idle"
    /\ rsync' =
          LET r == [IdleRepoSync EXCEPT !.noPerms = noPerms]
              repo == [r EXCEPT !.exists = TRUE, !.private = private, !.matches = matches] IN
          IF listFail THEN RepoStoreAbort(r, "list repositories")
          ELSE IF ~found THEN RepoAbort(r, "nil")
          ELSE IF private /\ directFail
               THEN RepoStoreAbort(repo, "list external service user IDs by repo ID")
          ELSE [repo EXCEPT
                         !.userIDs = IF private THEN direct ELSE {},
                         !.provider = repoProvider(private, matches),
                         !.serviceID = IF repoProvider(private, matches) THEN serviceID ELSE 0,
                         !.pc = IF repoProvider(private, matches) THEN "fetch" ELSE "touch"]
    /\ rcalls' = [NoCalls EXCEPT !.before = repoPerms]
    /\ UNCHANGED repoPerms
    /\ UNCHANGED <<qvars, uvars, plan, lvars, xvars, fvars>>

\* return errors.Wrap(s.permsStore.TouchRepoPermissions(ctx, repoID), "touch repository permissions")
RepoSyncTouch(ok) ==
    /\ rsync.pc = "touch"
    /\ rsync' = IF ok THEN RepoAbort(rsync, "nil")
                ELSE RepoStoreAbort(rsync, "touch repository permissions")
    /\ repoPerms' = IF ok THEN TouchRepoPermissions(repoPerms) ELSE repoPerms
    /\ rcalls' = [rcalls EXCEPT !.touch = @ + 1]
    /\ UNCHANGED <<qvars, uvars, plan, lvars, xvars, fvars>>

\* A variant without the check for the code host's 404.
notFoundNever(e) == FALSE

\* errors.As(err, &e) && e.Code == http.StatusNotFound
notFound(e) == e = "notFound"

\* A variant that returns every fetch error, first sync or not.
repoFetchOutcomeStrict(e, noPerms) ==
    IF notFound(e) THEN "touch"
    ELSE IF e # "nil" THEN "abort"
    ELSE "save"

\* What syncRepoPerms does with the result of FetchRepoPerms: "touch" on a
\* 404, "abort" with the error, or "save".
repoFetchOutcome(e, noPerms) ==
    IF notFound(e) THEN "touch"
    ELSE IF e # "nil" /\ ~noPerms THEN "abort"
    ELSE "save"

\* waitForRateLimit and FetchRepoPerms.
RepoSyncFetch(waitOk, e, ext) ==
    /\ rsync.pc = "fetch"
    /\ IF ~waitOk
       THEN /\ rsync' = logged(RepoAbort(rsync, "wait for rate limiter"),
                               fetchAttempt(rsync.serviceID, FALSE))
            /\ rcalls' = [rcalls EXCEPT !.wait = @ + 1]
       ELSE /\ rcalls' = [rcalls EXCEPT !.wait = @ + 1, !.fetch = @ + 1]
            /\ rsync' =
                  LET r == logged([rsync EXCEPT !.ferr = e, !.extAccountIDs = ext],
                                  fetchAttempt(rsync.serviceID, TRUE))
                      out == repoFetchOutcome(e, rsync.noPerms) IN
                  IF out = "touch" THEN [r EXCEPT !.pc = "touch"]
                  ELSE IF out = "abort" THEN RepoAbort(r, "fetch repository permissions")
                  ELSE [r EXCEPT !.pc = "map"]
    /\ UNCHANGED repoPerms
    /\ UNCHANGED <<qvars, uvars, plan, lvars, xvars, fvars>>

\* The users of the accounts the store knows.
mappedUserIDs(accountIDToUserID) == {accountIDToUserID[a] : a \in DOMAIN accountIDToUserID}

\* A variant that keeps every account id pending.
pendingAccountIDsAll(accountIDs, accountIDToUserID) == accountIDs

\* pendingAccountIDsSet after the loop over accountIDToUserID.
pendingAccountIDs(accountIDs, accountIDToUserID) == accountIDs \ DOMAIN accountIDToUserID

\* From the fetch to the transaction: the account ids are mapped to users
\* (when there are any) and p.UserIDs and the pending account ids are built.
RepoSyncMap(mapOk, table) ==
    /\ rsync.pc = "map"
    /\ LET ext == rsync.extAccountIDs
           accountIDToUserID ==
               IF ext # {} THEN GetUserIDsByExternalAccounts(table, ext) ELSE <<>> IN
       /\ rsync' =
             IF ext # {} /\ ~mapOk
             THEN RepoStoreAbort(rsync, "get user IDs by external accounts")
             ELSE [rsync EXCEPT !.pc = "transact",
                                !.UserIDs = mappedUserIDs(accountIDToUserID) \cup rsync.userIDs,
                                !.pendingAccountIDs = pendingAccountIDs(ext, accountIDToUserID)]
       /\ rcalls' = [rcalls EXCEPT !.table = table]
    /\ UNCHANGED repoPerms
    /\ UNCHANGED <<qvars, uvars, plan, lvars, xvars, fvars>>

\* txs, err := s.permsStore.Transact(ctx): the transaction starts from the
\* stored rows.
RepoSyncTransact(ok) ==
    /\ rsync.pc = "transact"
    /\ rsync' = IF ok THEN [rsync EXCEPT !.pc = "setPerms", !.tx = repoPerms]
                ELSE RepoStoreAbort(rsync, "start transaction")
    /\ UNCHANGED <<repoPerms, rcalls>>
    /\ UNCHANGED <<qvars, uvars, plan, lvars, xvars, fvars>>

\* A store whose writes take effect at once, outside the transaction.
txWriteThrough(rows, tx) == tx

\* What the store shows of a write made inside an open transaction: nothing.
txWrite(rows, tx) == rows

\* txs.SetRepoPermissions(ctx, p)
RepoSyncSetPerms(ok) ==
    /\ rsync.pc = "setPerms"
    /\ LET tx == [rsync.tx EXCEPT !.UserIDs = rsync.UserIDs, !.touched = TRUE] IN
       /\ rsync' = IF ok THEN [rsync EXCEPT !.pc = "setPending", !.tx = tx]
                   ELSE [RepoStoreAbort(rsync, "set repository permissions") EXCEPT !.pc = "txDone"]
       /\ repoPerms' = IF ok THEN txWrite(repoPerms, tx) ELSE repoPerms
    /\ rcalls' = [rcalls EXCEPT !.setPerms = @ + 1]
    /\ UNCHANGED <<qvars, uvars, plan, lvars, xvars, fvars>>

\* txs.SetRepoPendingPermissions(ctx, accounts, p)
RepoSyncSetPending(ok) ==
    /\ rsync.pc = "setPending"
    /\ LET tx == [rsync.tx EXCEPT !.Pending = rsync.pendingAccountIDs] IN
       /\ rsync' = IF ok THEN [rsync EXCEPT !.pc = "txDone", !.tx = tx, !.ret = "nil"]
                   ELSE [RepoStoreAbort(rsync, "set repository pending permissions") EXCEPT
                            !.pc = "txDone"]
       /\ repoPerms' = IF ok THEN txWrite(repoPerms, tx) ELSE repoPerms
    /\ rcalls' = [rcalls EXCEPT !.setPending = @ + 1]
    /\ UNCHANGED <<qvars, uvars, plan, lvars, xvars, fvars>>

\* defer func() { err = txs.Done(err) }(): rolls back on an error, commits
\* otherwise; a failed commit leaves the rows as they were and is returned.
RepoSyncTxDone(commitOk) ==
    /\ rsync.pc = "txDone"
    /\ IF rsync.ret # "nil"
       THEN /\ rsync' = [rsync EXCEPT !.pc = "done"]
            /\ UNCHANGED repoPerms
       ELSE IF commitOk
       THEN /\ rsync' = [rsync EXCEPT !.pc = "done"]
            /\ repoPerms' = rsync.tx
       ELSE /\ rsync' = RepoStoreAbort(rsync, "commit transaction")
            /\ UNCHANGED repoPerms
    /\ UNCHANGED rcalls
    /\ UNCHANGED <<qvars, uvars, plan, lvars, xvars, fvars>>

RepoNext ==
    \/ /\ rsync.pc = "idle"
       /\ \E userIDs \in SUBSET {1}, pending \in SUBSET {1} : RepoStoreHas(userIDs, pending)
    \/ /\ rsync.pc = "idle"
       /\ \E noPerms, listFail, found, private, matches, directFail \in BOOLEAN,
             serviceID \in Services, direct \in SUBSET RepoUsers :
             RepoSyncStart(noPerms, listFail, found, private, matches, serviceID, directFail, direct)
    \/ \E ok \in BOOLEAN : RepoSyncTouch(ok)
    \/ /\ rsync.pc = "fetch"
       /\ \E waitOk \in BOOLEAN, e \in RepoFetchErrors, ext \in SUBSET AccountIDs :
             RepoSyncFetch(waitOk, e, ext)
    \/ /\ rsync.pc = "map"
       /\ \E mapOk \in BOOLEAN, table \in AccountTables : RepoSyncMap(mapOk, table)
    \/ \E ok \in BOOLEAN : RepoSyncTransact(ok)
    \/ \E ok \in BOOLEAN : RepoSyncSetPerms(ok)
    \/ \E ok \in BOOLEAN : RepoSyncSetPending(ok)
    \/ \E commitOk \in BOOLEAN : RepoSyncTxDone(commitOk)

\* newRequestQueue() and NewPermsSyncer, then Run started.
Init ==
    /\ heap = <<>>
    /\ notifyEnqueue = FALSE
    /\ notifyDequeued = FALSE
    /\ timers = {}
    /\ now = 1
    /\ disabled = FALSE
    /\ ctxDone = FALSE
    /\ syncPC = "select"
    /\ request = NoRequest
    /\ err = "none"
    /\ schedPC = "tick"
    /\ want = [k \in Keys |-> NoWant]
    /\ usync = IdleUserSync
    /\ expired = {}
    /\ lastValid = {}
    /\ userPerms = EarlierUserPermissions({})
    /\ tolerated = {}
    /\ fetchErrs = <<>>
    /\ rsync = IdleRepoSync
    /\ repoPerms = RepoRows({}, {})
    /\ rcalls = NoCalls
    /\ plan = EmptyPlan
    /\ runPC = "blocked"
    /\ metricsPC = "select"
    /\ dump = IdleDump
    /\ resetter = NewResetter
    /\ mu = {}
    /\ p4 = NewScan
    /\ lookup = IdleLookup
    /\ search = IdleSearch

\* newRequestQueue() and NewPermsSyncer: Run is not called yet.
InitRun ==
    /\ heap = <<>>
    /\ notifyEnqueue = FALSE
    /\ notifyDequeued = FALSE
    /\ timers = {}
    /\ now = 1
    /\ disabled = FALSE
    /\ ctxDone = FALSE
    /\ syncPC = "notStarted"
    /\ request = NoRequest
    /\ err = "none"
    /\ schedPC = "notStarted"
    /\ want = [k \in Keys |-> NoWant]
    /\ usync = IdleUserSync
    /\ expired = {}
    /\ lastValid = {}
    /\ userPerms = EarlierUserPermissions({})
    /\ tolerated = {}
    /\ fetchErrs = <<>>
    /\ rsync = IdleRepoSync
    /\ repoPerms = RepoRows({}, {})
    /\ rcalls = NoCalls
    /\ plan = EmptyPlan
    /\ runPC = "init"
    /\ metricsPC = "notStarted"
    /\ dump = IdleDump
    /\ resetter = NewResetter
    /\ mu = {}
    /\ p4 = NewScan
    /\ lookup = IdleLookup
    /\ search = IdleSearch

Next ==
    \/ \E ids \in IDSeqs(requestTypeUser) : \E n \in 0..Len(ids) : ScheduleUsers(ids, n)
    \/ \E ids \in IDSeqs(requestTypeRepo) : \E n \in 0..Len(ids) : ScheduleRepos(ids, n)
    \/ RunSyncSelect
    \/ RunSyncAcquire
    \/ RunSyncCheck
    \/ \E t \in Times : TimerFire(t)
    \/ \E userErr, repoErr \in BOOLEAN : RunSyncPerms(userErr, repoErr)
    \/ RunSyncLoop
    \/ \E st \in StoreStates, failed \in BOOLEAN :
          \E uorder \in Orders(OldestPerms(requestTypeUser, st, limit)),
             rorder \in Orders(OldestPerms(requestTypeRepo, st, limit)) :
             RunScheduleTick(st, uorder, rorder, failed)
    \/ RunScheduleStop
    \/ Tick
    \/ \E b \in BOOLEAN : SetDisabled(b)
    \/ CancelRun

Spec == Init /\ [][Next]_vars

SpecResetter == Init /\ [][ResetterNext]_vars /\ ResetterFairness

\* The queue with its callers, the executor and the metrics loop, and DebugDump calls.
DumpNext ==
    \/ \E ids \in IDSeqs(requestTypeUser) : \E n \in 0..Len(ids) : ScheduleUsers(ids, n)
    \/ \E ids \in IDSeqs(requestTypeRepo) : \E n \in 0..Len(ids) : ScheduleRepos(ids, n)
    \/ RunSyncSelect
    \/ RunSyncAcquire
    \/ RunSyncCheck
    \/ \E userErr, repoErr \in BOOLEAN : RunSyncPerms(userErr, repoErr)
    \/ RunSyncLoop
    \/ CancelRun
    \/ MetricsTick
    \/ \E ok \in BOOLEAN : MetricsCollect(ok)
    \/ MetricsUnlock
    \/ MetricsStop
    \/ DebugDumpMake
    \/ DebugDumpCopy
    \/ DebugDumpReturn

SpecDump == Init /\ [][DumpNext]_vars

\* No sync of a user has started and the store has nothing of an earlier one.
UserUntouched ==
    /\ usync = IdleUserSync
    /\ userPerms = EarlierUserPermissions({})

\* No sync of a repository has started and the store has nothing of an earlier one.
RepoUntouched ==
    /\ rsync = IdleRepoSync
    /\ repoPerms = RepoRows({}, {})

\* syncPerms: one sync, of a user or of a repository by the request's type.
SyncNext ==
    \/ RepoUntouched /\ UserNext
    \/ UserUntouched /\ RepoNext

SpecSync == Init /\ [][SyncNext]_vars

\* Nothing has happened to the queue, the executor or the scheduler.
QueueUntouched ==
    /\ heap = <<>>
    /\ ~notifyEnqueue /\ ~notifyDequeued
    /\ timers = {}
    /\ now = 1
    /\ ~disabled /\ ~ctxDone
    /\ syncPC = "select" /\ request = NoRequest /\ err = "none"
    /\ schedPC = "tick"
    /\ want = [k \in Keys |-> NoWant]

\* The syncer seen from the queue (a sync is one step of the executor) or
\* from inside one sync.
SyncerNext ==
    \/ UserUntouched /\ RepoUntouched /\ Next
    \/ QueueUntouched /\ SyncNext

SpecSyncer == Init /\ [][SyncerNext]_vars

\* One call of the Perforce provider's FetchUserPerms.
SpecP4 == Init /\ [][P4Next]_vars

\* One call of searcher.Search.
SpecSearch == Init /\ [][SearchNext]_vars

\* One call of listPrivateRepoNamesByExact.
SpecList == Init /\ [][ListNext]_vars /\ ListFairness

\* Run with its three loops, from before the call to after the cancellation:
\* the steps of Next with the feature left enabled, and those of Run and of
\* the metrics loop.
RunNext ==
    \/ \E ids \in IDSeqs(requestTypeUser) : \E n \in 0..Len(ids) : ScheduleUsers(ids, n)
    \/ \E ids \in IDSeqs(requestTypeRepo) : \E n \in 0..Len(ids) : ScheduleRepos(ids, n)
    \/ RunSyncSelect
    \/ RunSyncAcquire
    \/ RunSyncCheck
    \/ \E t \in Times : TimerFire(t)
    \/ \E userErr, repoErr \in BOOLEAN : RunSyncPerms(userErr, repoErr)
    \/ RunSyncLoop
    \/ \E st \in StoreStates, failed \in BOOLEAN :
          \E uorder \in Orders(OldestPerms(requestTypeUser, st, limit)),
             rorder \in Orders(OldestPerms(requestTypeRepo, st, limit)) :
             RunScheduleTick(st, uorder, rorder, failed)
    \/ RunScheduleStop
    \/ Tick
    \/ CancelRun
    \/ RunStart
    \/ RunReturn
    \/ MetricsTick
    \/ \E ok \in BOOLEAN : MetricsCollect(ok)
    \/ MetricsUnlock
    \/ MetricsStop

\* The executor's select takes ctx.Done().
RunSyncStop == RunSyncSelect /\ syncPC' = "stopped"

\* A step of the executor between its select and the end of the iteration.
RunSyncStep ==
    \/ RunSyncAcquire
    \/ RunSyncCheck
    \/ \E userErr, repoErr \in BOOLEAN : RunSyncPerms(userErr, repoErr)
    \/ RunSyncLoop

\* Fair scheduling of Run and its loops: goroutines run whenever they can,
\* every sync and every metrics query terminates, and a select that is ready
\* on ctx.Done() again and again takes it (Go picks among the ready cases at random).
RunFairness ==
    /\ WF_vars(RunReturn)
    /\ SF_vars(RunSyncStop)
    /\ WF_vars(RunSyncStep)
    /\ WF_vars(RunScheduleStop)
    /\ WF_vars(\E ok \in BOOLEAN : MetricsCollect(ok))
    /\ WF_vars(MetricsUnlock)
    /\ SF_vars(MetricsStop)

RunSpec == InitRun /\ [][RunNext]_vars /\ RunFairness

\* One syncUserPerms call, from its arguments and the state of the stores to its return.
SpecUser == Init /\ [][UserNext]_vars

\* One syncRepoPerms call, from its arguments and the state of the stores to its return.
SpecRepo == Init /\ [][RepoNext]_vars

\* schedule() applied to the states of the permissions store.
SpecSchedule == Init /\ [][PlanNext]_vars

\* A request reaches the queue: a step of ScheduleUsers, ScheduleRepos or a
\* tick that inserts or modifies an entry (the executor's steps move syncPC).
Arrival == syncPC' = syncPC /\ heap' # heap

\* Fair scheduling: the runSync goroutine runs whenever it can, every sync
\* terminates, armed timers fire and the clock advances.
Fairness ==
    /\ WF_qvars(RunSyncSelect)
    /\ WF_qvars(RunSyncAcquire)
    /\ WF_qvars(RunSyncCheck)
    /\ WF_qvars(\E userErr, repoErr \in BOOLEAN : RunSyncPerms(userErr, repoErr))
    /\ WF_qvars(RunSyncLoop)
    /\ WF_qvars(\E t \in Times : TimerFire(t))
    /\ WF_qvars(Tick)

LiveSpec == Init /\ [][Next]_vars /\ Fairness

\* ---------------------------------------------------------------- claims
InQueue(k) == index(heap, k[1], k[2]) # 0

Entry(k) == heap[index(heap, k[1], k[2])]

\* An entry whose priority was raised by a later enqueue: only the periodic
\* scheduler sets NoPerms, and only at low priority.
Upgraded(e) == e.Priority = priorityHigh /\ e.NoPerms

\* C1: the queue holds at most one request per (entityType, entityID).
C1_OnePerKey == \A k \in Keys : Cardinality(Slots(heap, k[1], k[2])) <= 1

\* Both keys are queued, one entry is acquired and another was re-enqueued.
C1_Witness ==
    /\ Len(heap) = Cardinality(Keys)
    /\ \E i \in 1..Len(heap) : heap[i].acquired
    /\ \E i \in 1..Len(heap) : Upgraded(heap[i])

\* C2: the entry of a key carries the highest priority and the earliest
\* nextSyncAt (unset first) of the enqueue calls made on it while it was
\* queued and not acquired.
C2_MaxPriorityEarliestTime ==
    \A i \in 1..Len(heap) :
        LET k == <<heap[i].Type, heap[i].ID>> IN
        /\ heap[i].Priority = want[k].Priority
        /\ heap[i].NextSyncAt = want[k].NextSyncAt

\* An entry first enqueued by the periodic scheduler and then raised to high
\* priority, next to a low-priority entry that waits for a set time.
C2_Witness ==
    /\ \E i \in 1..Len(heap) : Upgraded(heap[i]) /\ ~heap[i].acquired
    /\ \E i \in 1..Len(heap) : heap[i].Priority = priorityLow /\ heap[i].NextSyncAt = 1

\* C3: no request is dispatched to syncPerms while its nextSyncAt is later
\* than the clock.
C3_NeverSyncEarly == syncPC = "sync" => Req.NextSyncAt <= now

\* A request with a set nextSyncAt that was not due at the start is being synced.
C3_Witness == syncPC = "sync" /\ Req.NextSyncAt = MaxTime /\ now = MaxTime

\* C4: when syncPerms returns, with or without an error, its request is no
\* longer in the queue.
C4_RemovedAfterSync ==
    [][(syncPC = "sync" /\ syncPC' = "returned") => index(heap', request[1], request[2]) = 0]_qvars

\* syncPerms has returned an error for a repository request.
C4_Witness == syncPC = "returned" /\ err = "err" /\ request[1] = requestTypeRepo /\ ~InQueue(request)

\* C6: at the moment the executor acquires a low-priority request, no
\* unacquired high-priority request is in the queue.
C6_HighFirst ==
    [][(syncPC = "acquire" /\ syncPC' = "check" /\ Entry(request').Priority = priorityLow)
        => \A i \in 1..Len(heap) : ~(heap[i].Priority = priorityHigh /\ ~heap[i].acquired)]_qvars

\* A low-priority request is being synced while a high-priority one, enqueued
\* after the acquisition, waits.
C6_Witness ==
    /\ syncPC = "sync"
    /\ Req.Priority = priorityLow
    /\ \E i \in 1..Len(heap) : heap[i].Priority = priorityHigh /\ ~heap[i].acquired

\* The request of key k is being synced.
BeingSynced(k) == syncPC = "sync" /\ request = k

HighUnset(h, typ, id) ==
    /\ index(h, typ, id) # 0
    /\ h[index(h, typ, id)].Priority = priorityHigh
    /\ h[index(h, typ, id)].NextSyncAt = ZeroTime

\* C7 as stated: after ScheduleUsers(ids) or ScheduleRepos(ids) with a live
\* context, every given id that is not being synced has a high-priority entry
\* with nextSyncAt unset.
C7_AsStated ==
    /\ \A ids \in IDSeqs(requestTypeUser) :
          LET q == ScheduleUsersQueue(Queue, ids, disabled, Len(ids)) IN
          \A i \in 1..Len(ids) :
              ~BeingSynced(<<requestTypeUser, ids[i]>>) => HighUnset(q.heap, requestTypeUser, ids[i])
    /\ \A ids \in IDSeqs(requestTypeRepo) :
          LET q == ScheduleReposQueue(Queue, ids, disabled, Len(ids)) IN
          \A i \in 1..Len(ids) :
              ~BeingSynced(<<requestTypeRepo, ids[i]>>) => HighUnset(q.heap, requestTypeRepo, ids[i])

\* The entry of key k is acquired by the executor (being checked or synced).
Acquired(k) == InQueue(k) /\ Entry(k).acquired

\* C7 as amended: when the feature is not disabled, after ScheduleUsers(ids)
\* or ScheduleRepos(ids) with a live context every given id whose entry is not
\* acquired by the executor has a high-priority entry with nextSyncAt unset.
C7_HighUnsetWhenEnabled ==
    ~disabled =>
        /\ \A ids \in IDSeqs(requestTypeUser) :
              LET q == ScheduleUsersQueue(Queue, ids, disabled, Len(ids)) IN
              \A i \in 1..Len(ids) :
                  ~Acquired(<<requestTypeUser, ids[i]>>) => HighUnset(q.heap, requestTypeUser, ids[i])
        /\ \A ids \in IDSeqs(requestTypeRepo) :
              LET q == ScheduleReposQueue(Queue, ids, disabled, Len(ids)) IN
              \A i \in 1..Len(ids) :
                  ~Acquired(<<requestTypeRepo, ids[i]>>) => HighUnset(q.heap, requestTypeRepo, ids[i])

\* Both a user and a repository were scheduled by ScheduleUsers/ScheduleRepos
\* and are queued at high priority, not acquired.
C7_Witness ==
    /\ ~disabled
    /\ Len(heap) = 2
    /\ \A i \in 1..Len(heap) :
          heap[i].Priority = priorityHigh /\ heap[i].NextSyncAt = ZeroTime /\ ~heap[i].NoPerms /\ ~heap[i].acquired

\* C5 as stated: under fair scheduling every queued request is eventually
\* dispatched and removed (as long as Run's context is live).
C5_AsStated == \A k \in Keys : InQueue(k) ~> (~InQueue(k) \/ ctxDone)

\* C5 as amended: under fair scheduling, if from some point on no further
\* request arrives, every queued request is eventually dispatched and removed
\* (as long as Run's context is live).
C5_DrainedOnceArrivalsStop ==
    \A k \in Keys : (<>[][~Arrival]_qvars) => (InQueue(k) ~> (~InQueue(k) \/ ctxDone))

\* A sync has returned an error while a request that is not due yet waits
\* in the queue for its nextSyncAt.
C5_Witness ==
    /\ syncPC = "returned"
    /\ err = "err"
    /\ ~ctxDone
    /\ Len(heap) = 1
    /\ heap[1].NextSyncAt = MaxTime
    /\ now < MaxTime


\* -------------------------------------------------- syncUserPerms: claims
Walked == DOMAIN fetchErrs

AuthErrors == {"unauthorized", "forbidden", "accountSuspended"}

\* The fetch for the k-th account or service failed with an error that is
\* not unauthorized, forbidden or account-suspended.
OtherFetchError(k) == fetchErrs[k] = "other"

\* FetchUserPerms for the k-th entry, an external account, failed with an
\* unauthorized, forbidden or account-suspended error.
AuthFetchError(k) == usync.items[k].kind = "account" /\ fetchErrs[k] \in AuthErrors

Returned == usync.pc = "done"

C9_AsStated ==
    (~usync.noPerms /\ \E k \in Walked : OtherFetchError(k)) =>
        /\ ~userPerms.written
        /\ Returned => usync.ret # "nil"

\* C10 as stated: an account whose FetchUserPerms failed with an
\* unauthorized/forbidden/account-suspended error is marked expired, never
\* marked last valid, the loop goes on, and the sync ends with a
\* SetUserPermissions write and no error.
C10_AsStated ==
    \A k \in Walked : AuthFetchError(k) =>
        /\ usync.items[k].ID \in expired
        /\ usync.items[k].ID \notin lastValid
        /\ usync.i > k
        /\ Returned => (usync.ret = "nil" /\ userPerms.written)

\* The calls of syncUserPerms whose failure it returns, the fetch aside.
OtherCalls ==
    LoadFailures \cup ResolveFailures
    \cup {"wait for rate limiter", "set expired for external account",
          "set last valid for external account"}

\* C10: an account whose FetchUserPerms failed with an unauthorized/forbidden/
\* account-suspended error is never marked last valid; it is marked expired
\* and the loop goes on to the next account, unless TouchExpired itself fails,
\* whose error the sync returns. The fetch error itself is never returned: a
\* sync that returns an error returns that of another failed call (or of a
\* fetch that failed otherwise, when noPerms=false), and a sync that returns
\* none has called SetUserPermissions.
C10_ExpiredAndContinues ==
    \A k \in Walked : AuthFetchError(k) =>
        /\ usync.items[k].ID \notin lastValid
        /\ \/ usync.items[k].ID \in expired /\ usync.i > k
           \/ Returned /\ usync.ret = "set expired for external account"
        /\ Returned =>
               \/ usync.ret = "nil" /\ userPerms.written
               \/ usync.ret \in OtherCalls
               \/ /\ usync.ret = "fetch user permissions"
                  /\ ~usync.noPerms
                  /\ \E j \in Walked : OtherFetchError(j)

\* A sync of a user with existing permissions whose first account is
\* forbidden: the account is expired, the second account is fetched and marked
\* last valid, and the permissions are saved.
C10_Witness ==
    /\ ~usync.noPerms
    /\ Returned /\ usync.ret = "nil" /\ userPerms.written
    /\ Len(usync.items) = 2
    /\ AuthFetchError(1) /\ fetchErrs[1] = "forbidden"
    /\ usync.items[1].ID \in expired /\ usync.items[1].ID \notin lastValid
    /\ usync.items[2].kind = "account" /\ fetchErrs[2] = "nil"
    /\ usync.items[2].ID \in lastValid

\* C11: what a successful syncUserPerms saves for the user is exactly the
\* repositories resolved from the exact specs, those resolved from the
\* include/exclude prefixes and the directly granted ones, whatever the row
\* held before.
C11_ExactUnionFullReplace ==
    userPerms.written =>
        userPerms.IDs =
            listPrivateRepoNamesByExact(usync.repoSpecs, userPerms.private)
            \cup listRepoNamesByContains(usync.includeContainsSpecs, usync.excludeContainsSpecs,
                                         userPerms.private)
            \cup usync.repoIDs

\* A sync that replaced a row holding repository 1 by a set without it, made of
\* an exact match and a direct grant.
C11_Witness ==
    /\ Returned /\ usync.ret = "nil" /\ userPerms.written
    /\ 1 \in userPerms.before /\ 1 \notin userPerms.IDs
    /\ usync.repoIDs # {}
    /\ listPrivateRepoNamesByExact(usync.repoSpecs, userPerms.private) # {}
    /\ userPerms.IDs = usync.repoIDs \cup listPrivateRepoNamesByExact(usync.repoSpecs, userPerms.private)

\* -------------------------------------------------- syncRepoPerms: claims
RepoReturned == rsync.pc = "done"

\* The repository exists and is non-private, or private with no authz
\* provider for any of its sources.
NoProviderRepo == rsync.exists /\ (~rsync.private \/ ~rsync.matches)

\* The permission content of the stored rows is what the sync started from.
ContentUnchanged ==
    /\ repoPerms.UserIDs = rcalls.before.UserIDs
    /\ repoPerms.Pending = rcalls.before.Pending

NoProviderCalls ==
    rcalls.wait = 0 /\ rcalls.fetch = 0 /\ rcalls.setPerms = 0 /\ rcalls.setPending = 0

\* C12 as stated: for an existing repository that is non-private, or private
\* without a matching provider, syncRepoPerms calls TouchRepoPermissions
\* exactly once and makes no rate-limit wait, fetch or Set call.
C12_AsStated ==
    (NoProviderRepo /\ RepoReturned) => (rcalls.touch = 1 /\ NoProviderCalls)

\* C12: for such a repository syncRepoPerms makes no rate-limit wait, no fetch
\* and no Set call and leaves the permission content alone; it returns after
\* exactly one TouchRepoPermissions call, except that for a private repository
\* a failure to list the direct-grant users is returned before any touch.
C12_TouchOnlyUnlessListingFails ==
    NoProviderRepo =>
        /\ NoProviderCalls
        /\ ContentUnchanged
        /\ RepoReturned =>
               \/ /\ rcalls.touch = 1
                  /\ rsync.ret \in {"nil", "touch repository permissions"}
                  /\ repoPerms.touched <=> rsync.ret = "nil"
               \/ /\ rcalls.touch = 0
                  /\ rsync.private
                  /\ rsync.ret = "list external service user IDs by repo ID"

\* A private repository without a provider, whose rows held content, was
\* touched once and kept its content.
C12_Witness ==
    /\ NoProviderRepo /\ rsync.private /\ RepoReturned
    /\ rsync.ret = "nil" /\ rcalls.touch = 1 /\ repoPerms.touched
    /\ repoPerms.UserIDs # {} /\ repoPerms.Pending # {}

\* C13: when FetchRepoPerms fails with the code host's 404, syncRepoPerms,
\* whatever noPerms is, calls TouchRepoPermissions once, makes no
\* SetRepoPermissions or SetRepoPendingPermissions call, leaves the permission
\* content alone and returns nil, or the error of the touch when that fails.
C13_NotFoundTouches ==
    rsync.ferr = "notFound" =>
        /\ rcalls.setPerms = 0 /\ rcalls.setPending = 0
        /\ ContentUnchanged
        /\ rsync.pc \in {"touch", "done"}
        /\ RepoReturned =>
               /\ rcalls.touch = 1
               /\ \/ rsync.ret = "nil" /\ repoPerms.touched
                  \/ rsync.ret = "touch repository permissions" /\ ~repoPerms.touched

\* A sync of a repository with existing permissions (noPerms=false) met a 404
\* that came with account ids: it touched the rows, kept their content and
\* returned nil.
C13_Witness ==
    /\ rsync.ferr = "notFound" /\ ~rsync.noPerms /\ rsync.extAccountIDs # {}
    /\ RepoReturned /\ rsync.ret = "nil" /\ repoPerms.touched
    /\ repoPerms.UserIDs # {} /\ repoPerms.Pending # {}

\* The sync went through the provider and committed its transaction.
RepoCommitted == RepoReturned /\ rsync.ret = "nil" /\ rcalls.setPerms = 1

\* C14: after a successful sync with a provider every account id the
\* provider returned is in exactly one place: the user of an account the
\* store knows is in the saved user bitmap and the account is not pending, any
\* other account id is in the saved pending set; the bitmap is exactly the
\* mapped users and the direct-grant users.
C14_MappedOrPending ==
    RepoCommitted =>
        /\ \A a \in rsync.extAccountIDs :
              IF a \in DOMAIN rcalls.table
              THEN rcalls.table[a] \in repoPerms.UserIDs /\ a \notin repoPerms.Pending
              ELSE a \in repoPerms.Pending
        /\ repoPerms.Pending \subseteq rsync.extAccountIDs
        /\ repoPerms.UserIDs =
              {rcalls.table[a] : a \in (DOMAIN rcalls.table) \cap rsync.extAccountIDs}
              \cup rsync.userIDs

\* The provider returned two accounts, one of a known user and one unknown,
\* and another user holds a direct grant.
C14_Witness ==
    /\ RepoCommitted
    /\ rsync.extAccountIDs = AccountIDs
    /\ repoPerms.Pending = {2}
    /\ 1 \in DOMAIN rcalls.table /\ rcalls.table[1] = 1
    /\ repoPerms.UserIDs = {1, 2} /\ rsync.userIDs = {2}

\* C15: the user bitmap and the pending set are written as a pair: the store
\* never shows one of them without the other, a sync that returns an error
\* (SetRepoPermissions or SetRepoPendingPermissions failed, or the transaction
\* could not start or commit) leaves both as they were, and a sync that
\* returns nil after them has both in the store.
C15_BothOrNeither ==
    /\ \/ rsync.pc = "idle"
       \/ ContentUnchanged
       \/ /\ RepoCommitted
          /\ repoPerms.UserIDs = rsync.UserIDs
          /\ repoPerms.Pending = rsync.pendingAccountIDs
    /\ (rsync.pc \in {"txDone", "done"} /\ rsync.ret # "nil") => ContentUnchanged
    /\ (RepoReturned /\ (rcalls.setPerms = 1 \/ rcalls.setPending = 1)) =>
          \/ rsync.ret \in {"set repository permissions", "set repository pending permissions",
                             "commit transaction"}
          \/ /\ rsync.ret = "nil"
             /\ repoPerms.UserIDs = rsync.UserIDs
             /\ repoPerms.Pending = rsync.pendingAccountIDs

\* SetRepoPermissions succeeded and SetRepoPendingPermissions failed on rows
\* that held other content: the sync returned the error and both are as before.
C15_Witness ==
    /\ RepoReturned /\ rsync.ret = "set repository pending permissions"
    /\ rcalls.setPerms = 1 /\ rcalls.setPending = 1
    /\ rsync.UserIDs # rcalls.before.UserIDs
    /\ rsync.pendingAccountIDs # rcalls.before.Pending
    /\ ContentUnchanged /\ repoPerms.UserIDs # {}

\* ------------------------------------------- periodic scheduler: claims
\* A step of the periodic scheduler's tick.
TickStep ==
    \E st \in StoreStates, failed \in BOOLEAN :
       \E uorder \in Orders(OldestPerms(requestTypeUser, st, limit)),
          rorder \in Orders(OldestPerms(requestTypeRepo, st, limit)) :
          RunScheduleTick(st, uorder, rorder, failed)

\* C16: a tick of the periodic scheduler while isDisabled() is true enqueues
\* nothing: the queue and its wake-up signal are as before the tick.
C16_DisabledTickEnqueuesNothing ==
    [][(disabled /\ TickStep) => (heap' = heap /\ notifyEnqueue' = notifyEnqueue)]_vars

\* The feature is disabled while the scheduler is running, the executor is
\* idle and a request is queued; the store would have work for a tick.
C16_Witness ==
    /\ disabled /\ schedPC = "tick" /\ ~ctxDone
    /\ Len(heap) = 1 /\ syncPC = "select" /\ ~notifyEnqueue

\* The users and repositories of the store by the state of their rows.
PlanNoPerms(typ) == {id \in Stored(typ, plan.st) : plan.st[<<typ, id>>] = 0}

PlanWithPerms(typ) == {id \in Stored(typ, plan.st) : plan.st[<<typ, id>>] # 0}

\* C17: every request of the periodic scheduler has low priority; those for
\* users and repositories without permissions have no nextSyncAt and
\* noPerms=true, those for the oldest ones carry the stored timestamp as
\* nextSyncAt and noPerms=false.
C17_LowPriorityRequests ==
    plan.computed =>
        /\ \A i \in 1..Len(plan.Users) :
              LET m == scheduleUsersMeta(plan.Users[i])
                  t == plan.st[<<requestTypeUser, m.ID>>] IN
              /\ m.Type = requestTypeUser /\ m.Priority = priorityLow
              /\ IF t = 0 THEN m.NextSyncAt = ZeroTime /\ m.NoPerms
                 ELSE m.NextSyncAt = t /\ ~m.NoPerms
        /\ \A i \in 1..Len(plan.Repos) :
              LET m == scheduleReposMeta(plan.Repos[i])
                  t == plan.st[<<requestTypeRepo, m.ID>>] IN
              /\ m.Type = requestTypeRepo /\ m.Priority = priorityLow
              /\ IF t = 0 THEN m.NextSyncAt = ZeroTime /\ m.NoPerms
                 ELSE m.NextSyncAt = t /\ ~m.NoPerms

\* A schedule with a never-synced and an oldest-synced entry of each kind.
C17_Witness ==
    /\ plan.computed
    /\ \E i, j \in 1..Len(plan.Users) :
          plan.Users[i].noPerms /\ plan.Users[j].nextSyncAt = MaxTime
    /\ \E i, j \in 1..Len(plan.Repos) :
          plan.Repos[i].noPerms /\ plan.Repos[j].nextSyncAt = 1

PlanUserIDs == {plan.Users[i].userID : i \in 1..Len(plan.Users)}

PlanRepoIDs == {plan.Repos[i].repoID : i \in 1..Len(plan.Repos)}

\* ids holds every entity without permissions, and of those with permissions
\* the oldest ones, all of them or 10.
ExactlyScheduled(typ, ids) ==
    LET old == ids \ PlanNoPerms(typ) IN
    /\ PlanNoPerms(typ) \subseteq ids
    /\ old \subseteq PlanWithPerms(typ)
    /\ Cardinality(old) <= 10
    /\ Cardinality(old) = 10 \/ old = PlanWithPerms(typ)
    /\ \A a \in old, b \in PlanWithPerms(typ) \ old :
          plan.st[<<typ, a>>] <= plan.st[<<typ, b>>]

\* C18: schedule() returns every user and every private repository without
\* a permissions row, and of those with one the oldest, at most 10 of each
\* kind; no user and no repository is in the result twice.
C18_ScheduleExactly ==
    plan.computed =>
        /\ ExactlyScheduled(requestTypeUser, PlanUserIDs)
        /\ ExactlyScheduled(requestTypeRepo, PlanRepoIDs)
        /\ Cardinality(PlanUserIDs) = Len(plan.Users)
        /\ Cardinality(PlanRepoIDs) = Len(plan.Repos)

\* Eleven users with permissions of two ages: the schedule holds the ten
\* oldest and leaves a newest one out; of the two repositories the one
\* without permissions comes first.
C18_Witness ==
    /\ plan.computed
    /\ Cardinality(PlanWithPerms(requestTypeUser)) = 11
    /\ Len(plan.Users) = 10
    /\ \E a \in PlanUserIDs, b \in PlanWithPerms(requestTypeUser) \ PlanUserIDs :
          plan.st[<<requestTypeUser, a>>] < plan.st[<<requestTypeUser, b>>]
    /\ Len(plan.Repos) = 2
    /\ plan.Repos[1].noPerms /\ ~plan.Repos[2].noPerms

\* A step by which the executor moves towards starting another request: its
\* select, its acquireNext or its due check.
Dispatch == RunSyncSelect \/ RunSyncAcquire \/ RunSyncCheck

\* A request other than the one in flight is queued, not acquired and due.
DueWaiting ==
    \E i \in 1..Len(heap) :
       /\ ~heap[i].acquired
       /\ <<heap[i].Type, heap[i].ID>> # request
       /\ heap[i].NextSyncAt <= now

\* C19: while a sync is in flight (waiting on the rate limiter of, or a call
\* to, one service), a due queued request of another entity can still be
\* started: the executor can take a step towards dispatching it.
C19_AsStated == (syncPC = "sync" /\ DueWaiting) => ENABLED Dispatch

\* Every loop of Run has terminated and Run has returned.
AllStopped ==
    /\ runPC = "returned"
    /\ syncPC = "stopped"
    /\ schedPC = "stopped"
    /\ metricsPC = "stopped"

\* The step in which Run leaves its start has all three loops running.
StartsLoops ==
    (runPC = "init" /\ runPC' # "init") =>
        (syncPC' = "select" /\ schedPC' = "tick" /\ metricsPC' = "select" /\ runPC' = "blocked")

\* A sync in flight is not abandoned: the executor leaves it only by its return.
FinishesInFlight == syncPC = "sync" => syncPC' \in {"sync", "returned"}

\* C20: Run starts the executor, the scheduler and the metrics loop and does
\* not return before ctx is cancelled; once ctx is cancelled Run returns and
\* each of the three loops eventually terminates, the executor only after the
\* sync it has in flight returned.
C20_RunBlocksUntilCancelled ==
    /\ [](runPC = "returned" => ctxDone)
    /\ [][StartsLoops /\ FinishesInFlight]_vars
    /\ (ctxDone /\ runPC # "init") ~> AllStopped

\* ctx is cancelled, Run has returned, the scheduler and the metrics loop have
\* stopped, and the executor still has a sync in flight.
C20_Witness ==
    /\ ctxDone
    /\ runPC = "returned"
    /\ schedPC = "stopped"
    /\ metricsPC = "stopped"
    /\ syncPC = "sync"

\* ------------------------------------------------- store errors: claims
\* A store call of the user sync failed, and the sync, once returned, returned
\* an error without SetUserPermissions having written.
UserStoreErrorFatal(errs) ==
    errs # {} => (~userPerms.written /\ (Returned => usync.ret # "nil"))

\* A store call of the repository sync failed: the sync is over (or rolling
\* back) with that error and the rows are those it started from.
RepoStoreErrorFatal ==
    rsync.storeErrs # {} =>
        /\ rsync.pc \in {"txDone", "done"}
        /\ rsync.ret \in rsync.storeErrs
        /\ repoPerms = rcalls.before

\* C21 as stated: whenever any store operation of syncUserPerms or
\* syncRepoPerms returns an error, the sync returns an error and writes no
\* permission record.
C21_AsStated ==
    /\ UserStoreErrorFatal(usync.storeErrs)
    /\ RepoStoreErrorFatal

\* C21: a store error ends the sync with that error and no permission record
\* written, except a failed AssociateUserAndSave of a fetched account, which
\* is passed over.
C21_StoreErrorsFatal ==
    /\ LET errs == usync.storeErrs \ {"associate external account"} IN
          /\ UserStoreErrorFatal(errs)
          /\ errs # {} => (Returned /\ usync.ret \in errs)
    /\ RepoStoreErrorFatal

\* SetRepoPermissions went through inside the transaction, then
\* SetRepoPendingPermissions failed; the sync has returned and the stored
\* rows, not empty, differ from what the sync had built.
C21_Witness ==
    /\ RepoReturned
    /\ rsync.storeErrs = {"set repository pending permissions"}
    /\ rcalls.setPerms = 1
    /\ rcalls.before.UserIDs # {}
    /\ rsync.UserIDs # rcalls.before.UserIDs

\* ----------------------------------------------------- DebugDump: claims
\* C22: every DebugDump call returns a snapshot: it lists every queued
\* request in heap order, with Size the number of entries.
C22_AsStated ==
    /\ dump.pc # "panic"
    /\ dump.pc = "done" =>
          /\ dump.Size = Len(dump.of)
          /\ Len(dump.Queue) = Len(dump.of)

\* ------------------------------------------------------ Resetter: claims
\* Start has returned and so has Stop.
ResetterStopped == resetter.startPC = "returned" /\ resetter.stopPC = "returned"

\* The loop ends only through the shutdown: r.ctx is cancelled when Start returns.
EndsOnlyOnShutdown ==
    (resetter.startPC # "returned" /\ resetter'.startPC = "returned") => resetter.cancelled

\* An error of ResetStalled that is counted leaves the loop running.
CountedErrorGoesOn ==
    resetter'.errors > resetter.errors => resetter'.startPC = "select"

Deferred == syncPC = "check" /\ waitFor(Req.NextSyncAt, now) > 0

\* The executor's step from the due check with a request that is not due: the
\* entry stays, un-acquired and otherwise as it was, no sync starts, and a
\* timer with deadline nextSyncAt is armed.
DeferredStep ==
    (Deferred /\ syncPC' # "check") =>
        LET i == index(heap, request[1], request[2]) IN
        /\ heap' = [heap EXCEPT ![i].acquired = FALSE]
        /\ syncPC' = "select"
        /\ timers' = timers \cup {Req.NextSyncAt}
        /\ notifyEnqueue' = notifyEnqueue
        /\ notifyDequeued' = notifyDequeued

\* A timer goes off no earlier than its deadline and signals notifyEnqueue.
TimerWakes ==
    (timers \ timers') # {} =>
        /\ \A t \in timers \ timers' : t <= now
        /\ notifyEnqueue'

\* The executor leaves its select towards acquireNext only on a signal.
NoPolling ==
    (syncPC = "select" /\ syncPC' = "acquire") => (notifyEnqueue \/ notifyDequeued)

\* C24: an acquired request whose nextSyncAt is in the future is released
\* (it stays queued, un-acquired, priority and nextSyncAt unchanged) and not
\* synced; a one-shot timer for exactly nextSyncAt - now is armed, whose firing
\* wakes the executor, and the executor does not poll in between.
C24_DeferredReleased == [][DeferredStep /\ TimerWakes /\ NoPolling]_vars

\* A request was deferred: it is queued and un-acquired with nextSyncAt in
\* the future, its timer is armed, and the executor waits in its select with
\* no signal pending.
C24_Witness ==
    /\ syncPC = "select"
    /\ ~notifyEnqueue /\ ~notifyDequeued
    /\ Len(heap) = 1
    /\ ~heap[1].acquired
    /\ heap[1].NextSyncAt > now
    /\ heap[1].NextSyncAt \in timers

\* ------------------------------------------------------ acquireNext: claims
\* The slots of the heap whose entry is not acquired.
Unacquired == {i \in 1..Len(heap) : ~heap[i].acquired}

\* Slot i comes before slot j: higher priority, then earlier nextSyncAt with
\* the unset time first, then earlier enqueue.
ComesBefore(i, j) ==
    \/ heap[i].Priority > heap[j].Priority
    \/ /\ heap[i].Priority = heap[j].Priority
       /\ \/ heap[i].NextSyncAt = ZeroTime /\ heap[j].NextSyncAt # ZeroTime
          \/ /\ heap[j].NextSyncAt # ZeroTime
             /\ heap[i].NextSyncAt < heap[j].NextSyncAt
          \/ heap[i].NextSyncAt = heap[j].NextSyncAt /\ i < j

\* The step in which the executor calls acquireNext.
AcquireStep == syncPC = "acquire" /\ syncPC' # "acquire"

\* C25: acquireNext returns, among the unacquired entries, the one that is
\* first under the order (priority descending, nextSyncAt ascending with unset
\* first, enqueue sequence) and marks it acquired; it returns nil when there is
\* no unacquired entry.
C25_AcquiresFirst ==
    [][AcquireStep =>
          IF Unacquired = {}
          THEN request' = NoRequest /\ heap' = heap
          ELSE \E i \in Unacquired :
                  /\ \A j \in Unacquired \ {i} : ComesBefore(i, j)
                  /\ request' = <<heap[i].Type, heap[i].ID>>
                  /\ heap' = [heap EXCEPT ![i].acquired = TRUE]]_vars

\* The executor has acquired the entry enqueued second, which has a higher
\* priority than the one enqueued first.
C25_Witness ==
    /\ syncPC = "check"
    /\ Len(heap) = 2
    /\ heap[2].acquired /\ ~heap[1].acquired
    /\ heap[2].Priority > heap[1].Priority
    /\ request = <<heap[2].Type, heap[2].ID>>

\* ------------------------------------------- FetchRepoPerms errors: claims
\* FetchRepoPerms failed with an error that is not the code host's 404.
RepoFetchFailed == rsync.ferr = "other"

\* C26: after a FetchRepoPerms error other than the not-found case, a sync
\* with noPerms=false returns the error having made no write (no Set call,
\* no Touch); one with noPerms=true goes on and, unless a store call fails,
\* saves the permissions built from the account ids that came with the error.
C26_FetchErrorPolicy ==
    /\ (RepoFetchFailed /\ ~rsync.noPerms) =>
          /\ RepoReturned
          /\ rsync.ret = "fetch repository permissions"
          /\ rcalls.touch = 0 /\ rcalls.setPerms = 0 /\ rcalls.setPending = 0
          /\ repoPerms = rcalls.before
    /\ (RepoFetchFailed /\ rsync.noPerms) =>
          /\ rsync.pc # "touch" /\ rcalls.touch = 0
          /\ rsync.ret # "fetch repository permissions"
          /\ (RepoReturned /\ rsync.storeErrs = {}) =>
                /\ rsync.ret = "nil"
                /\ rcalls.setPerms = 1 /\ rcalls.setPending = 1
                /\ repoPerms.UserIDs =
                      {rcalls.table[a] : a \in (DOMAIN rcalls.table) \cap rsync.extAccountIDs}
                      \cup rsync.userIDs
                /\ repoPerms.Pending = rsync.extAccountIDs \ DOMAIN rcalls.table

\* A first sync whose fetch failed with two account ids returned: one is of
\* a known user, the other is pending, and both were saved over older rows.
C26_Witness ==
    /\ RepoFetchFailed /\ rsync.noPerms
    /\ RepoReturned /\ rsync.ret = "nil"
    /\ rsync.extAccountIDs = AccountIDs
    /\ repoPerms.Pending = {2}
    /\ repoPerms.UserIDs = {2}
    /\ rcalls.before.UserIDs = {1}

\* --------------------------------------------------- rate limiting: claims
\* The provider permission fetches in a log of calls.
Fetches(L) == {k \in 1..Len(L) : L[k].op = "fetch"}

\* Every fetch in the log comes right after a wait of 1 that succeeded on the
\* limiter of the same service, and nothing follows a wait that failed.
WaitsThenFetches(L) ==
    \A k \in 1..Len(L) :
       /\ L[k].op = "fetch" =>
             /\ k > 1
             /\ L[k - 1] = [op |-> "wait", serviceID |-> L[k].serviceID, n |-> 1, ok |-> TRUE]
       /\ (L[k].op = "wait" /\ ~L[k].ok) => k = Len(L)

\* C27: every provider permission fetch made during a sync (FetchUserPerms,
\* FetchUserPermsByToken, FetchRepoPerms) is immediately preceded by a
\* successful rate-limit wait of 1 on that provider's service id, and no fetch
\* is issued when the wait fails.
C27_WaitBeforeFetch ==
    /\ WaitsThenFetches(usync.log)
    /\ WaitsThenFetches(rsync.log)
    /\ Cardinality(Fetches(usync.log)) =
          Cardinality({k \in DOMAIN fetchErrs : fetchErrs[k] \notin {"unfetched", "skipped"}})
    /\ Cardinality(Fetches(rsync.log)) = rcalls.fetch

\* A user sync fetched for an account on one code host and then waited in
\* vain for the limiter of another: it returned without the second fetch.
C27_Witness ==
    /\ Returned
    /\ usync.ret = "wait for rate limiter"
    /\ Len(usync.log) = 3
    /\ usync.log[2].op = "fetch"
    /\ usync.log[3].serviceID # usync.log[2].serviceID

StartsIteration == syncPC = "select" /\ syncPC' = "acquire"

\* C29 as stated: once the root context is cancelled the executor starts no
\* further iteration (no acquireNext, no syncPerms) from its select, even if
\* wake-up signals are pending.
C29_AsStated == [][ctxDone => ~StartsIteration]_vars

\* The executor returns only from its select, and only once ctx is cancelled.
StopsOnlyWhenCancelled ==
    (syncPC # "stopped" /\ syncPC' = "stopped") => (ctxDone /\ syncPC = "select")

\* With ctx cancelled and no wake-up signal pending, the select can only return.
StopsWhenNoSignal ==
    (ctxDone /\ syncPC = "select" /\ ~notifyEnqueue /\ ~notifyDequeued /\ syncPC' # "select")
        => syncPC' = "stopped"

\* C29: the executor observes the cancellation at its select: it returns only
\* there and only once ctx is cancelled; with no wake-up signal pending it can
\* only return, with one pending it may still start a further iteration, and
\* in the end it returns, whatever is queued.
C29_StopsAtSelect ==
    /\ [][StopsOnlyWhenCancelled /\ StopsWhenNoSignal]_vars
    /\ (ctxDone /\ runPC # "init") ~> (syncPC = "stopped")

\* The executor has returned although a request is queued and a wake-up
\* signal is pending.
C29_Witness ==
    /\ syncPC = "stopped"
    /\ Len(heap) > 0
    /\ notifyEnqueue

\* -------------------------------------------------------- no retry: claims
\* The entries of accountsOrServices a fetch was made for.
FetchedItems == {k \in DOMAIN fetchErrs : fetchErrs[k] \notin {"unfetched", "skipped"}}

\* One fetch per entry fetched for, in the user sync; at most one
\* FetchRepoPerms (and one wait) in the repository sync.
FetchedOnce ==
    /\ Cardinality(Fetches(usync.log)) = Cardinality(FetchedItems)
    /\ Len(usync.log) <= 2 * Len(usync.items)
    /\ rcalls.fetch <= 1 /\ rcalls.wait <= 1
    /\ Cardinality(Fetches(rsync.log)) <= 1

\* When syncPerms returns, its request is gone from the queue.
GoneAfterSync ==
    (syncPC = "sync" /\ syncPC' = "returned") => index(heap', request[1], request[2]) = 0

\* A key enters the queue only by a step that is not the executor's: a
\* Schedule call or a pass of the periodic scheduler.
EnqueuedByOthers ==
    \A k \in Keys :
       (index(heap, k[1], k[2]) = 0 /\ index(heap', k[1], k[2]) # 0) =>
           (syncPC' = syncPC /\ request' = request)

\* C30: no retry inside a sync: syncUserPerms fetches at most once for each
\* account or service credential, syncRepoPerms calls FetchRepoPerms at most
\* once, and after a sync, failed or not, the executor does not put the
\* request back: the entity is queued again only by a later pass of the
\* periodic scheduler or a Schedule call.
C30_NoRetry ==
    /\ []FetchedOnce
    /\ [][GoneAfterSync /\ EnqueuedByOthers]_vars

\* A user sync has failed and the executor is back at its loop with an empty
\* queue and no wake-up signal pending.
C30_Witness ==
    /\ syncPC = "returned"
    /\ err = "err"
    /\ request[1] = requestTypeUser
    /\ heap = <<>>
    /\ ~notifyEnqueue

\* -------------------------------------------------- prefix lookup: claims
\* The tail of syncUserPerms got past the exact lookup.
PastExactLookup ==
    /\ "exact" \in usync.lookups
    /\ "list external repositories by exact matching" \notin usync.storeErrs

\* Only exclude prefixes were collected, and the permissions were saved.
OnlyExcludesSaved ==
    /\ usync.pc = "done"
    /\ usync.ret = "nil"
    /\ usync.includeContainsSpecs = {}
    /\ usync.excludeContainsSpecs # {}

\* C31: in syncUserPerms, once the exact lookup has returned, the prefix
\* lookup is made if and only if an include prefix was collected; with only
\* exclude prefixes collected no prefix lookup is made and the saved set is
\* the exact matches and the directly granted repositories, whatever the
\* exclusions cover.
C31_PrefixLookupOnlyWithInclusion ==
    /\ PastExactLookup => ("contains" \in usync.lookups <=> usync.includeContainsSpecs # {})
    /\ ~PastExactLookup => "contains" \notin usync.lookups
    /\ OnlyExcludesSaved =>
          /\ "contains" \notin usync.lookups
          /\ userPerms.IDs = listPrivateRepoNamesByExact(usync.repoSpecs, userPerms.private)
                                \cup usync.repoIDs

\* Only an exclude prefix was collected and a repository it covers was saved
\* as an exact match.
C31_Witness ==
    /\ OnlyExcludesSaved
    /\ \E sp \in usync.excludeContainsSpecs :
          \E r \in userPerms.IDs \ usync.repoIDs :
             sp.ServiceID = ServiceOf(r) /\ Covers(sp.ID, r)

\* ------------------------------------------------- Perforce ACLs: claims
\* The scanner has just handled a line that revokes: its depot path starts
\* with "-" and its level can revoke read access.
RevokingLine ==
    /\ p4.pc = "scan" /\ p4'.pc = "scan" /\ p4'.n = p4.n + 1
    /\ HasPrefix(p4'.depotMatch, <<"-">>)
    /\ canRevokeReadAccess(p4'.level)

\* The path written in the line, without its "-".
WrittenPath == Tail(p4'.depotMatch)

\* The excluded path the line is handled as: the written path without its
\* trailing dots, "..." and "*" turned into patterns.
ExcludedPath == Tail(depotContainsOf(p4'.depotMatch))

\* s contains a Perforce wildcard, "..." or "*".
Wildcard(s) ==
    \E k \in 1..Len(s) : s[k] = "*" \/ HasPrefix(SubSeq(s, k, Len(s)), <<".", ".", ".">>)

\* The line is appended as an exclusion and the inclusions stay.
Appended ==
    /\ p4'.excludeContains = Append(p4.excludeContains, ExcludedPath)
    /\ p4'.includeContains = p4.includeContains

\* The line is ignored.
Ignored ==
    /\ p4'.excludeContains = p4.excludeContains
    /\ p4'.includeContains = p4.includeContains

\* What a revoking line without wildcard does: it looks at the first
\* inclusion that is a prefix of the excluded path.
PrefixRule ==
    LET hits == {k \in 1..Len(p4.includeContains) :
                    HasPrefix(ExcludedPath, p4.includeContains[k])}
    IN  IF hits = {} THEN Ignored
        ELSE LET i == CHOOSE k \in hits : \A j \in hits : k <= j
             IN  IF p4.includeContains[i] = ExcludedPath
                 THEN /\ p4'.includeContains =
                            SubSeq(p4.includeContains, 1, i - 1)
                            \o SubSeq(p4.includeContains, i + 1, Len(p4.includeContains))
                      /\ p4'.excludeContains = p4.excludeContains
                 ELSE Appended

\* C32 as stated: a revoking rule that contains a wildcard is always appended
\* as an exclusion; one without follows the prefix rule.
C32_AsStated ==
    [][RevokingLine => IF Wildcard(WrittenPath) THEN Appended ELSE PrefixRule]_vars

\* C32: processing the ACL lines in order, a revoking rule whose path still
\* contains a wildcard once its trailing dots are dropped is always appended
\* as an exclusion; any other revoking rule, a path that only ends in "..."
\* included, looks for the first collected inclusion that is a prefix of the
\* excluded path: if that inclusion equals the path it is removed and no
\* exclusion is added, if it is a strict prefix the path is appended as an
\* exclusion and the inclusions stay, and with no such inclusion the rule is
\* ignored.
C32_RevokingRules ==
    [][RevokingLine => IF Wildcard(TrimRight(WrittenPath)) THEN Appended ELSE PrefixRule]_vars

\* Three lines were read: two inclusions, the first a strict prefix of the
\* second, then a revoking rule ending in "..." for the second: the second
\* inclusion stays and the path is an exclusion.
C32_Witness ==
    /\ p4.pc = "scan"
    /\ p4.n = 3
    /\ HasPrefix(p4.depotMatch, <<"-">>) /\ canRevokeReadAccess(p4.level)
    /\ Wildcard(Tail(p4.depotMatch)) /\ ~Wildcard(TrimRight(Tail(p4.depotMatch)))
    /\ Len(p4.includeContains) = 2
    /\ p4.excludeContains = <<p4.includeContains[2]>>

\* ---------------------------------------------- batched lookup: claims
\* The concatenation of a sequence of sequences.
RECURSIVE Concat(_)
Concat(ss) == IF ss = <<>> THEN <<>> ELSE Head(ss) \o Concat(Tail(ss))

\* The batches looked up so far are the input up to what remains, in input
\* order, each with at least one and at most 10000 specs.
Batched ==
    /\ \A k \in 1..Len(lookup.batches) :
          Len(lookup.batches[k]) >= 1 /\ Len(lookup.batches[k]) <= 10000
    /\ lookup.ret # "err" => Concat(lookup.batches) \o lookup.remaining = lookup.repoSpecs

\* A call that returned without error looked everything up and returns the
\* batch results one after the other.
ReturnsAll ==
    (lookup.pc = "done" /\ lookup.ret = "nil") =>
        /\ lookup.remaining = <<>>
        /\ ~lookup.nil
        /\ lookup.result =
              Concat([k \in 1..Len(lookup.batches) |->
                         ListRepoNames(lookup.batches[k], lookup.private)])

\* A failed batch returns the error and a nil slice.
ErrorReturnsNothing ==
    lookup.ret = "err" => (lookup.pc = "done" /\ lookup.nil /\ lookup.result = <<>>)

\* C33: listPrivateRepoNamesByExact terminates for every input length and
\* looks up every repo spec in exactly one batch, in input order, every batch
\* holding at most 10000 specs; the result is the concatenation of the batch
\* results, and an error in a batch returns that error and no partial result.
C33_BatchedLookup ==
    /\ [](Batched /\ ReturnsAll /\ ErrorReturnsNothing)
    /\ [][lookup.pc = "loop" /\ lookup'.pc = "loop" =>
              Len(lookup'.remaining) < Len(lookup.remaining)]_vars
    /\ (lookup.pc = "loop") ~> (lookup.pc = "done")

\* A call with more than two full batches of specs returned three batches'
\* results, some specs private and some not.
C33_Witness ==
    /\ lookup.pc = "done" /\ lookup.ret = "nil"
    /\ Len(lookup.batches) = 3
    /\ Len(lookup.repoSpecs) > 20000
    /\ lookup.result # <<>> /\ Len(lookup.result) < Len(lookup.repoSpecs)

\* ------------------------------------------------ searcher.Search: claims
\* Search has made a second attempt.
SecondAttempt == Len(search.urls) >= 2

\* C34: searcher.Search makes at most 2 attempts; it makes a second one only
\* after a first that failed with a temporary error that is no timeout, the
\* context not cancelled; and the second goes to another endpoint than the
\* first unless there is no other endpoint.
C34_AtMostTwoAttempts ==
    /\ Len(search.urls) <= 2
    /\ SecondAttempt =>
          /\ ~search.errs[1].nil
          /\ search.errs[1].temporary
          /\ ~search.errs[1].timeout
          /\ ~search.cancelled[1]
          /\ \/ search.urls[2] # search.urls[1]
             \/ search.available[2] \ {search.urls[1]} = {}

\* A second attempt went to the other endpoint and failed with a temporary
\* error as well: Search returned that error.
C34_Witness ==
    /\ SecondAttempt
    /\ search.pc = "done"
    /\ search.urls[2] # search.urls[1]
    /\ ~search.errs[2].nil /\ search.errs[2].temporary /\ ~search.errs[2].timeout
    /\ search.ret = "err"

\* ------------------------------------------- disabled Schedule: claims
\* The queue and the wake-up signal after a call are what they were before.
LeavesQueue(q) == q.heap = heap /\ q.notifyEnqueue = notifyEnqueue

\* C35: when isDisabled() is true or the id list is empty, ScheduleUsers and
\* ScheduleRepos leave the queue as it is and send no wake-up signal,
\* whatever the ids and however far the call gets before its context is done.
C35_DisabledScheduleNoEffect ==
    /\ \A ids \in IDSeqs(requestTypeUser) : \A n \in 0..Len(ids) :
          (disabled \/ Len(ids) = 0) =>
              LeavesQueue(ScheduleUsersQueue(Queue, ids, disabled, n))
    /\ \A ids \in IDSeqs(requestTypeRepo) : \A n \in 0..Len(ids) :
          (disabled \/ Len(ids) = 0) =>
              LeavesQueue(ScheduleReposQueue(Queue, ids, disabled, n))

\* The syncer is disabled with a request in the queue and no signal pending,
\* in a state where an enabled ScheduleUsers for user 1 and an enabled
\* ScheduleRepos for repository 1 would both change the queue or signal.
C35_Witness ==
    /\ disabled
    /\ heap # <<>>
    /\ ~notifyEnqueue
    /\ ENABLED ScheduleUsers(<<1>>, 1)
    /\ ~LeavesQueue(ScheduleUsersQueue(Queue, <<1>>, FALSE, 1))
    /\ ~LeavesQueue(ScheduleReposQueue(Queue, <<1>>, FALSE, 1))

\* --------------------------------------- enqueue during a sync: claims
\* The executor is inside syncPerms: its request is acquired and in flight.
InFlight == syncPC = "sync"

\* The requests a Schedule call or the periodic scheduler can make for the
\* entity that is being synced.
MetasInFlight ==
    {requestMeta(prio, request[1], request[2], t, noPerms) :
        prio \in {priorityLow, priorityHigh}, t \in {ZeroTime} \cup Times, noPerms \in BOOLEAN}

\* An enqueue for the entity in flight leaves the queue as it is: no second
\* entry, the acquired entry untouched, no wake-up signal for the executor.
EnqueueInFlightIgnored ==
    InFlight =>
        /\ \A meta \in MetasInFlight :
              /\ enqueue(heap, meta) = heap
              /\ ~enqueueNotifies(heap, meta)
              /\ Cardinality(Slots(enqueue(heap, meta), request[1], request[2])) = 1
        /\ request[1] = requestTypeUser =>
              LeavesQueue(ScheduleUsersQueue(Queue, <<request[2]>>, FALSE, 1))
        /\ request[1] = requestTypeRepo =>
              LeavesQueue(ScheduleReposQueue(Queue, <<request[2]>>, FALSE, 1))

\* The sync in flight is the only one: the executor is the one goroutine that
\* syncs, and its request is the one acquired entry.
OneSyncInFlight ==
    \A i \in 1..Len(heap) :
        heap[i].acquired => (syncPC \in {"check", "sync"} /\ request = <<heap[i].Type, heap[i].ID>>)

\* C36: an enqueue for an entity whose request is acquired creates no second
\* entry and starts no second sync of the entity; when the sync in flight
\* completes, its removal leaves no entry for the entity in the queue, so the
\* enqueue made meanwhile causes no later sync.
C36_EnqueueDuringSyncDropped ==
    /\ [](EnqueueInFlightIgnored /\ OneSyncInFlight)
    /\ [][(InFlight /\ syncPC' = "returned") =>
              /\ Slots(heap', request[1], request[2]) = {}
              /\ Len(heap') = Len(heap) - 1]_vars

\* A low-priority user request with a sync time is in flight, no signal is
\* pending and ScheduleUsers can run for that user: on the entry as it was
\* before its acquisition the call would have raised the priority.
C36_Witness ==
    /\ InFlight
    /\ request[1] = requestTypeUser
    /\ Req.Priority = priorityLow
    /\ Req.NextSyncAt # ZeroTime
    /\ ~notifyEnqueue
    /\ ENABLED ScheduleUsers(<<request[2]>>, 1)
    /\ enqueue(release(heap, request[1], request[2]),
               requestMeta(priorityHigh, request[1], request[2], ZeroTime, FALSE))
          # release(heap, request[1], request[2])

\* ------------------------------------------------ deferred head: claims
\* Every high-priority entry has nextSyncAt unset.
HighPriorityUnset ==
    \A i \in 1..Len(heap) : heap[i].Priority = priorityHigh => heap[i].NextSyncAt = ZeroTime

\* The entry could be synced now: it is not acquired and its time has come.
DueNow(e) == ~e.acquired /\ waitFor(e.NextSyncAt, now) <= 0

\* The executor defers the request it acquired: it is not due yet.
Defers == syncPC = "check" /\ syncPC' = "select"

\* C37 as stated: every high-priority entry has nextSyncAt unset, and
\* whenever the executor defers the request it took from the head of the
\* queue, no other unacquired entry in the queue is due.
C37_AsStated ==
    [][/\ HighPriorityUnset /\ HighPriorityUnset'
       /\ Defers => \A i \in 1..Len(heap) : ~DueNow(heap[i])]_vars

\* C37 as amended: every high-priority entry has nextSyncAt unset; when the
\* executor defers the request it acquired, an unacquired entry that is due
\* was enqueued or moved forward after the acquisition: it orders before the
\* deferred request and its wake-up signal is pending, so the executor
\* acquires it on its next iteration.
C37_DeferredHeadDelaysNothing ==
    /\ []HighPriorityUnset
    /\ [][Defers =>
            \A i \in 1..Len(heap) :
                DueNow(heap[i]) =>
                    /\ notifyEnqueue
                    /\ Less(heap, i, index(heap, request[1], request[2]))]_vars

\* The executor has deferred a low-priority request that is not due while a
\* high-priority request, enqueued after the acquisition, waits with its
\* signal pending.
C37_Witness ==
    /\ syncPC = "select"
    /\ timers # {}
    /\ notifyEnqueue
    /\ \E i, j \in 1..Len(heap) :
          /\ heap[i].Priority = priorityHigh /\ DueNow(heap[i])
          /\ heap[j].Priority = priorityLow /\ ~heap[j].acquired /\ ~DueNow(heap[j])

\* ------------------------------------------ failed rate-limit wait: claims
\* A waitForRateLimit call in the log returned an error.
WaitFailed(L) == \E k \in 1..Len(L) : L[k].op = "wait" /\ ~L[k].ok

\* C38: a failed rate-limit wait ends the sync with the error "wait for rate
\* limiter" and without a permission write, with noPerms set or not: the
\* user's permissions are not set, the repository's rows are neither set nor
\* touched.
C38_FailedWaitAborts ==
    /\ WaitFailed(usync.log) =>
          /\ usync.pc = "done"
          /\ usync.ret = "wait for rate limiter"
          /\ ~userPerms.written
          /\ usync.lookups = {}
    /\ WaitFailed(rsync.log) =>
          /\ rsync.pc = "done"
          /\ rsync.ret = "wait for rate limiter"
          /\ repoPerms = rcalls.before
          /\ rcalls.touch = 0 /\ rcalls.setPerms = 0 /\ rcalls.setPending = 0

\* A first sync of a user (noPerms) went past a fetch error it tolerates and
\* then returned on a failed wait.
C38_Witness ==
    /\ usync.noPerms
    /\ WaitFailed(usync.log)
    /\ Len(fetchErrs) >= 1 /\ fetchErrs[1] = "other"
    /\ usync.ret = "wait for rate limiter"

\* ----------------------------------------------- failed schedule: claims
\* A tick in which the k-th query of schedule() fails leaves the queue and
\* its wake-up signal as they are, whatever the earlier queries returned.
FailedTickEnqueuesNothing ==
    schedPC = "tick" =>
        \A st \in StoreStates, k \in DOMAIN scheduleErrors :
           \A uorder \in Orders(OldestPerms(requestTypeUser, st, limit)),
              rorder \in Orders(OldestPerms(requestTypeRepo, st, limit)) :
              LeavesQueue(runScheduleQueue(Queue, disabled, TRUE,
                                           scheduleUpTo(st, uorder, rorder, k), ctxDone))

\* The scheduler loop ends only on ctx.Done().
SchedulerKeepsRunning == (schedPC = "tick" /\ schedPC' # "tick") => ctxDone

\* C39: a tick is all or nothing: when one of the four store queries of
\* schedule() fails, the tick enqueues nothing, not even the lists computed
\* before the failure, the queue is unchanged, and the scheduler loop keeps
\* running for the next tick.
C39_FailedTickAllOrNothing ==
    /\ []FailedTickEnqueuesNothing
    /\ [][SchedulerKeepsRunning]_vars

\* The scheduler is running and enabled, no signal is pending, and the store
\* is such that a tick failing at its last query has both a user and a
\* repository computed already, neither of them in the queue.
C39_Witness ==
    /\ schedPC = "tick" /\ ~disabled /\ ~ctxDone
    /\ ~notifyEnqueue
    /\ heap = <<>>
    /\ syncPC = "returned"
    /\ \E st \in StoreStates :
          LET sc == scheduleUpTo(st, <<>>, <<>>, 4) IN
          /\ OldestPerms(requestTypeUser, st, limit) = {}
          /\ Len(sc.Users) = 1 /\ Len(sc.Repos) = 1
          /\ ~LeavesQueue(runScheduleQueue(Queue, disabled, FALSE, sc, ctxDone))


\* ------------------------------------------- DebugDump and the lock: claims
\* The step in which DebugDump copies the entries, under the read lock.
CopiesEntries == dump.pc = "made" /\ dump'.pc # "made"

\* C40: under every interleaving of DebugDump with enqueue and remove, the
\* buffer DebugDump allocated has exactly as many slots as the heap has
\* entries in the step that copies them, and the call never panics.
C40_AsStated == [][/\ CopiesEntries => dump.n = Len(heap)
                   /\ dump'.pc # "panic"]_vars

====
